---------------------------- MODULE Spec2Model ----------------------------
(***************************************************************************)
(* A model of the compiler front-end toolkit: the shunting-yard regular    *)
(* expression parser (regexp2/src/parser.rs), the generated scanner of the *)
(* lexer generator (llex-derive/src/lib.rs) and the SLR(1) table           *)
(* construction (lalr/src/lr1.rs, lalr/src/lalr.rs).                       *)
(*                                                                         *)
(* Four specifications share the module, one per subsystem:                *)
(*   Spec     the regular expression parser, reading one character a step  *)
(*   LexSpec  the lexer combiner and the generated `advance`               *)
(*   LRSpec   the SLR(1) table construction, one `set_action` a step       *)
(*   ItemSpec the LR(0) and LR(1) item set operations, one call a step     *)
(* Each keeps the variables of the other subsystems at their idle values.  *)
(***************************************************************************)
EXTENDS Integers, Sequences, FiniteSets, TLC

VARIABLES
    \* ---- regular expression parser (Parser::parse, ParserState) ----
    expr,               \* the characters of the expression read so far
    stack,              \* ParserState.stack: the value stack of fragments
    op_stack,           \* ParserState.op_stack
    paren_count_stack,  \* ParserState.paren_count_stack
    escaped,            \* ParserState.escaped
    insert_concat,      \* ParserState.insert_concat
    in_char_class,      \* ParserState.in_char_class
    char_class_buf,     \* ParserState.char_class_buf: (CharClass, negate)
    char_range_buf,     \* ParserState.char_range_buf: three optional chars
    ppc,                \* where `parse` stands: "reading", "ok", "err"
    presult             \* what `parse` returned: the head fragment or the error

parserVars == <<expr, stack, op_stack, paren_count_stack, escaped, insert_concat,
                in_char_class, char_class_buf, char_range_buf, ppc, presult>>

VARIABLES
    \* ---- lexer (llex-derive: the `lexer` macro and the generated scanner) ----
    rules,              \* the ordered rules given to the macro
    lexer,              \* what the macro built: NFA, DFA, mappings, dfa_actions
    src_input,          \* the input the caller set out to scan
    call_input,         \* the input of the caller's current call of `advance`
    adv_input,          \* `input` of the running (possibly nested) `advance`
    depth,              \* nesting depth of the running `advance`
    lpc,                \* where the scanner stands
    m,                  \* what DFA::find returned: <<"Some", end, final_state>>
    span,               \* the text handed to the action
    run_action,         \* the action expression run, if any
    token_res,          \* what the action returned
    ret,                \* what the call of `advance` returned
    tokens              \* the tokens the caller has collected

lexVars == <<rules, lexer, src_input, call_input, adv_input, depth, lpc, m, span,
             run_action, token_res, ret, tokens>>

VARIABLES
    \* ---- SLR(1) table construction (Grammar::slr1_table, LR1State) ----
    grammar,            \* the grammar `slr1_table` is called on
    lr0_automaton,      \* `self.lr0_automaton()`
    follow_sets,        \* `self.follow_sets(None)`
    lr_states,          \* `states`: the LR(1) states pushed so far
    lr1_state,          \* `lr1_state`: the state under construction
    lr_i,               \* index of the LR(0) state the loop is at
    lr_work,            \* the steps of the current state still to run
    lr_pc,              \* where the construction stands
    lr_result           \* what `slr1_table` (or a direct call) returned

lrVars == <<grammar, lr0_automaton, follow_sets, lr_states, lr1_state, lr_i,
            lr_work, lr_pc, lr_result>>

VARIABLES
    \* ---- LR(0) and LR(1) item sets (lalr.rs; Grammar::lr1_closure) ----
    item_grammar,       \* the grammar the method is called on
    item_set,           \* `set`: the item set passed in (and changed in place)
    goto_x,             \* `x` of close_goto
    changed,            \* `changed` of lr1_closure
    lr0_states,         \* `states` of lr0_set
    states_queue,       \* `states_queue` of lr0_set
    popped_state,       \* `state`: the state the loop of lr0_set popped last
    item_pc,            \* where the call stands
    item_result         \* what the call returned

itemVars == <<item_grammar, item_set, goto_x, changed, lr0_states, states_queue,
              popped_state, item_pc, item_result>>

vars == <<parserVars, lexVars, lrVars, itemVars>>

----------------------------------------------------------------------------
(***************************************************************************)
(* Generic helpers.                                                        *)
(***************************************************************************)
Last(s) == s[Len(s)]

Front(s) == SubSeq(s, 1, Len(s) - 1)

SeqRange(s) == {s[i] : i \in 1..Len(s)}

----------------------------------------------------------------------------
(***************************************************************************)
(* Bounds of the regular expression parser's inputs.                       *)
(***************************************************************************)
\* The longest expression read.
MaxExprLen == 5

\* The longest expression of nested groups read.
MaxGroupLen == 6

\* Expressions are drawn from five families: operator expressions (literals,
\* postfix operators, alternation, groups), character-class expressions
\* (literals, brackets, dash, caret, dot, backslash), classes of operator
\* characters, sequences of escapes, and the longer expressions of nested
\* groups.
OperatorChars == {"a", "b", "|", "*", "+", "?", "(", ")"}

ClassChars == {"a", "d", "-", "[", "]", "\\", "^", ".", "|"}

ClassOperatorChars == {"[", "]", "*", "+", "?", "(", ")"}

\* The characters written after a backslash in a sequence of escapes.
EscapedChars ==
    {"d", "D", "w", "W", "s", "S", "n", "a", "|", "*", "+", "?", "(", ")", "."}

EscapeSequence(e) ==
    \A i \in 1..Len(e) : IF i % 2 = 1 THEN e[i] = "\\" ELSE e[i] \in EscapedChars

GroupChars == {"a", "(", ")", "*"}

InputFamily(e) ==
    \/ /\ Len(e) <= MaxExprLen
       /\ \/ SeqRange(e) \subseteq OperatorChars
          \/ SeqRange(e) \subseteq ClassChars
          \/ SeqRange(e) \subseteq ClassOperatorChars
          \/ EscapeSequence(e)
    \/ /\ Len(e) <= MaxGroupLen
       /\ SeqRange(e) \subseteq GroupChars

\* Characters of the default arm of the match in `parse`.
OtherChars == {"a", "b", "d", "-", "D", "w", "W", "s", "S", "n"}

\* Code points of the characters of the model (ASCII).
Ord(c) ==
    CASE c = "a" -> 97 [] c = "b" -> 98 [] c = "d" -> 100 [] c = "-" -> 45
      [] c = "|" -> 124 [] c = "*" -> 42 [] c = "+" -> 43 [] c = "?" -> 63
      [] c = "(" -> 40 [] c = ")" -> 41 [] c = "[" -> 91 [] c = "]" -> 93
      [] c = "\\" -> 92 [] c = "^" -> 94 [] c = "." -> 46 [] c = "0" -> 48
      [] c = "9" -> 57 [] c = "_" -> 95 [] c = "z" -> 122 [] c = "A" -> 65
      [] c = "Z" -> 90 [] c = " " -> 32 [] c = "\n" -> 10 [] c = "\t" -> 9
      [] c = "l" -> 108 [] c = "e" -> 101 [] c = "t" -> 116 [] c = "x" -> 120
      [] c = "=" -> 61 [] c = "4" -> 52 [] c = "2" -> 50 [] c = "D" -> 68
      [] c = "w" -> 119 [] c = "W" -> 87 [] c = "s" -> 115 [] c = "S" -> 83
      [] c = "n" -> 110

\* The absent value of an Option<char>.
NoChar == "None"

----------------------------------------------------------------------------
(***************************************************************************)
(* CharClass (regexp2/src/class.rs is not among the sources: modelled from *)
(* the specification, section 3 and 4.1).  A class is a set of inclusive   *)
(* ranges <<start, end>> of code points; the scalar domain is cut down to  *)
(* 0..MaxCodePoint.                                                        *)
(***************************************************************************)
MaxCodePoint == 127

CharRangeNew(s, e) == <<s, e>>

CharRangeNewSingle(c) == <<Ord(c), Ord(c)>>

CharClassNew == {}

CharClassNewSingle(c) == {CharRangeNewSingle(c)}

AddRange(cls, r) == cls \cup {r}

CopyInto(dst, src) == dst \cup src

ClassPoints(cls) == {p \in 0..MaxCodePoint : \E r \in cls : r[1] <= p /\ p <= r[2]}

\* The maximal runs of consecutive code points of a set, as ranges.
RangesOf(points) ==
    {<<s, e>> \in points \X points :
        /\ s <= e
        /\ \A p \in s..e : p \in points
        /\ (s - 1) \notin points
        /\ (e + 1) \notin points}

Complement(cls) == RangesOf((0..MaxCodePoint) \ ClassPoints(cls))

AllButNewline == Complement(CharClassNewSingle("\n"))

DecimalNumber == {<<Ord("0"), Ord("9")>>}

Letter == {<<Ord("A"), Ord("Z")>>, <<Ord("a"), Ord("z")>>}

Word == RangesOf(ClassPoints(Letter \cup DecimalNumber \cup {CharRangeNewSingle("_")}))

Whitespace == RangesOf(ClassPoints({<<9, 13>>, CharRangeNewSingle(" ")}))

----------------------------------------------------------------------------
(***************************************************************************)
(* The parser state as one record, so that the handlers compose the way    *)
(* the code calls them.  `err` is the ParseError a `?` returned, or "none".*)
(***************************************************************************)
NoError == "none"

PState ==
    [stack |-> stack, op_stack |-> op_stack,
     paren_count_stack |-> paren_count_stack, escaped |-> escaped,
     insert_concat |-> insert_concat, in_char_class |-> in_char_class,
     char_class_buf |-> char_class_buf, char_range_buf |-> char_range_buf,
     err |-> NoError]

Fail(s, e) == IF s.err = NoError THEN [s EXCEPT !.err = e] ELSE s

\* A fragment is the postfix term of the reductions that built it: a sequence
\* of tokens <<kind, class>>.
Tok(kind, cls) == <<kind, cls>>

\* NFAParser::shift_action: a two-state fragment with one labelled edge.
ShiftAction(s, cls) ==
    IF s.err # NoError THEN s
    ELSE [s EXCEPT !.stack = Append(@, <<Tok("Atom", cls)>>)]

\* NFAParser::reduce_action: pop the operator, pop its operands, push the
\* combined fragment.
ReduceAction(s) ==
    IF s.err # NoError THEN s
    ELSE IF s.op_stack = <<>> THEN Fail(s, "UnbalancedOperators")
    ELSE LET op == Last(s.op_stack)
             t  == [s EXCEPT !.op_stack = Front(@)]
             n  == Len(s.stack)
         IN CASE op \in {"Union", "Concatenation"} ->
                    IF n < 2
                    THEN Fail([t EXCEPT !.stack = <<>>], "UnbalancedOperators")
                    ELSE [t EXCEPT !.stack =
                            Append(SubSeq(@, 1, n - 2),
                                   s.stack[n - 1] \o s.stack[n] \o <<Tok(op, {})>>)]
              [] op \in {"KleeneStar", "Plus", "Optional"} ->
                    IF n < 1
                    THEN Fail(t, "UnbalancedOperators")
                    ELSE [t EXCEPT !.stack =
                            Append(Front(@), s.stack[n] \o <<Tok(op, {})>>)]
              [] op = "LeftParen" -> Fail(t, "UnbalancedParentheses")
              [] op = "EmptyPlaceholder" ->
                    [t EXCEPT !.stack = Append(@, <<Tok("Epsilon", {})>>)]

ReduceStack(s) == ReduceAction(s)

PostfixOps == {"KleeneStar", "Plus", "Optional"}

\* The decision of precedence_reduce_stack: whether the operator on top of the
\* operator stack is collapsed before `op` is handled.
ShouldReduce(s, op) ==
    /\ s.op_stack # <<>>
    /\ LET last_op == Last(s.op_stack)
       IN IF last_op = op /\ last_op # "LeftParen" THEN TRUE
          ELSE IF op = "Union" THEN last_op \in {"Concatenation"} \cup PostfixOps
          ELSE IF op = "Concatenation" THEN last_op \in PostfixOps
          ELSE IF op \in PostfixOps THEN FALSE
          ELSE IF op = "LeftParen" THEN last_op \in PostfixOps
          ELSE FALSE

PrecedenceReduceStack(s, op) ==
    IF s.err = NoError /\ ShouldReduce(s, op) THEN ReduceStack(s) ELSE s

\* `while self.precedence_reduce_stack(&Operator::Concatenation)? {}`
RECURSIVE ReduceWhileConcatenation(_)
ReduceWhileConcatenation(s) ==
    IF s.err = NoError /\ ShouldReduce(s, "Concatenation")
    THEN ReduceWhileConcatenation(ReduceStack(s))
    ELSE s

PushOperator(s, op) ==
    IF s.err # NoError THEN s ELSE [s EXCEPT !.op_stack = Append(@, op)]

HandleCharClass(s, cls) ==
    LET s1 == ReduceWhileConcatenation(s)
        s2 == IF s1.insert_concat THEN PushOperator(s1, "Concatenation") ELSE s1
        s3 == ShiftAction(s2, cls)
    IN IF s3.err # NoError THEN s3 ELSE [s3 EXCEPT !.insert_concat = TRUE]

HandleLiteralChar(s, c) == HandleCharClass(s, CharClassNewSingle(c))

HandleUnion(s) ==
    LET s1 == PrecedenceReduceStack(s, "Union")
    IN IF s1.err # NoError THEN s1
       ELSE [s1 EXCEPT !.op_stack = Append(@, "Union"), !.insert_concat = FALSE]

\* handle_kleene_star, handle_plus and handle_optional differ in the operator.
HandlePostfix(s, op) ==
    LET s1 == PrecedenceReduceStack(s, op)
    IN IF s1.err # NoError THEN s1
       ELSE [s1 EXCEPT !.op_stack = Append(@, op), !.insert_concat = TRUE]

HandleKleeneStar(s) == HandlePostfix(s, "KleeneStar")

HandlePlus(s) == HandlePostfix(s, "Plus")

HandleOptional(s) == HandlePostfix(s, "Optional")

\* handle_left_paren without the reset of insert_concat.
HandleLeftParen_KeepsFlag(s) ==
    LET s1 == PrecedenceReduceStack(s, "LeftParen")
        s2 == IF s1.insert_concat THEN PushOperator(s1, "Concatenation") ELSE s1
    IN IF s2.err # NoError THEN s2
       ELSE [s2 EXCEPT !.op_stack = Append(@, "LeftParen"),
                       !.paren_count_stack = Append(@, Len(s2.stack))]

HandleLeftParen(s) ==
    LET s1 == PrecedenceReduceStack(s, "LeftParen")
        s2 == IF s1.insert_concat THEN PushOperator(s1, "Concatenation") ELSE s1
    IN IF s2.err # NoError THEN s2
       ELSE [s2 EXCEPT !.op_stack = Append(@, "LeftParen"),
                       !.paren_count_stack = Append(@, Len(s2.stack)),
                       !.insert_concat = FALSE]

\* The loop of handle_right_paren: reduce down to the nearest LeftParen.
RECURSIVE ReduceToLeftParen(_)
ReduceToLeftParen(s) ==
    IF s.err = NoError /\ s.op_stack # <<>> /\ Last(s.op_stack) # "LeftParen"
    THEN ReduceToLeftParen(ReduceStack(s))
    ELSE s

HandleRightParen(s) ==
    IF s.op_stack = <<>> THEN Fail(s, "UnbalancedOperators")
    ELSE IF s.paren_count_stack = <<>> THEN Fail(s, "UnbalancedParentheses")
    ELSE LET s1 ==
               IF Last(s.op_stack) = "LeftParen"
                  /\ Last(s.paren_count_stack) = Len(s.stack)
               THEN ReduceStack([s EXCEPT !.op_stack =
                                    Append(Front(@), "EmptyPlaceholder")])
               ELSE LET r == ReduceToLeftParen(s)
                    IN IF r.err # NoError THEN r
                       ELSE IF r.op_stack = <<>>
                            THEN Fail(r, "UnbalancedOperators")
                            ELSE [r EXCEPT !.op_stack = Front(@)]
         IN IF s1.err # NoError THEN s1 ELSE [s1 EXCEPT !.insert_concat = TRUE]

EmptyRangeBuf == <<NoChar, NoChar, NoChar>>

RangeBufIsEmpty(buf) == buf[1] = NoChar

ClearCharClassBuf(s) ==
    [s EXCEPT !.char_class_buf = [class |-> CharClassNew, negate |-> FALSE]]

HandleIncompleteCharRangeBuf(s) ==
    LET b   == s.char_range_buf
        c0  == IF b[1] # NoChar
               THEN AddRange(s.char_class_buf.class, CharRangeNewSingle(b[1]))
               ELSE s.char_class_buf.class
        c1  == IF b[1] # NoChar /\ b[2] # NoChar
               THEN AddRange(c0, CharRangeNewSingle(b[2]))
               ELSE c0
    IN [s EXCEPT !.char_class_buf.class = c1, !.char_range_buf = EmptyRangeBuf]

RECURSIVE AppendCharRangeBuf(_, _)
AppendCharRangeBuf(s, c) ==
    LET b == s.char_range_buf
    IN IF b[1] = NoChar THEN [s EXCEPT !.char_range_buf[1] = c]
       ELSE IF b[2] = NoChar THEN
            IF c = "-" THEN [s EXCEPT !.char_range_buf[2] = c]
            ELSE AppendCharRangeBuf(
                    [s EXCEPT !.char_class_buf.class =
                                  AddRange(@, CharRangeNewSingle(b[1])),
                              !.char_range_buf = EmptyRangeBuf], c)
       ELSE IF b[3] = NoChar THEN
            [s EXCEPT !.char_class_buf.class =
                          AddRange(@, CharRangeNew(Ord(b[1]), Ord(c))),
                      !.char_range_buf = EmptyRangeBuf]
       ELSE s

\* handle_right_bracket without the test for an empty class.
HandleRightBracket_NoEmptyCheck(s) ==
    LET s1 == HandleIncompleteCharRangeBuf([s EXCEPT !.in_char_class = FALSE])
        s2 == HandleCharClass(s1, IF s1.char_class_buf.negate
                                  THEN Complement(s1.char_class_buf.class)
                                  ELSE s1.char_class_buf.class)
    IN IF s2.err # NoError THEN s2 ELSE ClearCharClassBuf(s2)

HandleRightBracket(s) ==
    LET s0 == [s EXCEPT !.in_char_class = FALSE]
    IN IF RangeBufIsEmpty(s0.char_range_buf) /\ s0.char_class_buf.class = {}
       THEN Fail(s0, "EmptyCharacterClass")
       ELSE LET s1  == HandleIncompleteCharRangeBuf(s0)
                cls == IF s1.char_class_buf.negate
                       THEN Complement(s1.char_class_buf.class)
                       ELSE s1.char_class_buf.class
                s2  == HandleCharClass(s1, cls)
            IN IF s2.err # NoError THEN s2 ELSE ClearCharClassBuf(s2)

----------------------------------------------------------------------------
(***************************************************************************)
(* The arms of the match on the next character in Parser::parse.           *)
(***************************************************************************)
\* The shape shared by the arms '|', '*', '+', '?', '(', ')', '.': an escaped
\* or in-class character is a literal, otherwise `unescaped` is the outcome.
MetaArm(s, c, unescaped) ==
    IF s.escaped
    THEN LET s0 == [s EXCEPT !.escaped = FALSE]
         IN IF s0.in_char_class THEN AppendCharRangeBuf(s0, c)
            ELSE HandleLiteralChar(s0, c)
    ELSE IF s.in_char_class THEN AppendCharRangeBuf(s, c)
    ELSE unescaped

ArmUnion(s) == MetaArm(s, "|", HandleUnion(s))

ArmKleeneStar(s) == MetaArm(s, "*", HandleKleeneStar(s))

ArmPlus(s) == MetaArm(s, "+", HandlePlus(s))

ArmOptional(s) == MetaArm(s, "?", HandleOptional(s))

ArmLeftParen(s) == MetaArm(s, "(", HandleLeftParen(s))

ArmRightParen(s) == MetaArm(s, ")", HandleRightParen(s))

ArmDot(s) == MetaArm(s, ".", HandleCharClass(s, AllButNewline))

ArmLeftBracket(s) ==
    IF s.in_char_class THEN AppendCharRangeBuf(s, "[")
    ELSE IF s.escaped THEN HandleLiteralChar([s EXCEPT !.escaped = FALSE], "[")
    ELSE ClearCharClassBuf([s EXCEPT !.in_char_class = TRUE])

ArmRightBracket(s) ==
    IF s.escaped
    THEN LET s0 == [s EXCEPT !.escaped = FALSE]
         IN IF s0.in_char_class THEN AppendCharRangeBuf(s0, "]")
            ELSE HandleLiteralChar(s0, "]")
    ELSE IF s.in_char_class THEN HandleRightBracket(s)
    ELSE HandleLiteralChar(s, "]")

ArmBackslash(s) ==
    IF s.escaped THEN HandleLiteralChar([s EXCEPT !.escaped = FALSE], "\\")
    ELSE [s EXCEPT !.escaped = TRUE]

ArmCaret(s) ==
    IF s.escaped
    THEN LET s0 == [s EXCEPT !.escaped = FALSE]
         IN IF s0.in_char_class THEN AppendCharRangeBuf(s0, "^")
            ELSE HandleLiteralChar(s0, "^")
    ELSE IF s.in_char_class
         THEN IF RangeBufIsEmpty(s.char_range_buf) /\ s.char_class_buf.class = {}
              THEN [s EXCEPT !.char_class_buf.negate = TRUE]
              ELSE AppendCharRangeBuf(s, "^")
    ELSE HandleLiteralChar(s, "^")

\* The class of an escape sequence \d \D \w \W \n \s \S.
SpecialChars == {"d", "D", "w", "W", "n", "s", "S"}

\* Every escape sequence taken for \d.
SpecialClass_AllDigits(c) == DecimalNumber

SpecialClass(c) ==
    CASE c = "d" -> DecimalNumber
      [] c = "D" -> Complement(DecimalNumber)
      [] c = "w" -> Word
      [] c = "W" -> Complement(Word)
      [] c = "n" -> CharClassNewSingle("\n")
      [] c = "s" -> Whitespace
      [] c = "S" -> Complement(Whitespace)

ArmDefault(s, c) ==
    LET is_special == s.escaped /\ c \in SpecialChars
        s0 == [s EXCEPT !.escaped = FALSE]
    IN IF is_special
       THEN IF s0.in_char_class
            THEN LET s1 == HandleIncompleteCharRangeBuf(s0)
                 IN [s1 EXCEPT !.char_class_buf.class = CopyInto(@, SpecialClass(c))]
            ELSE HandleCharClass(s0, SpecialClass(c))
       ELSE IF s0.in_char_class THEN AppendCharRangeBuf(s0, c)
       ELSE HandleLiteralChar(s0, c)

\* The end of `parse`: the placeholder of the empty expression, the final
\* reductions, and the head of the value stack.
RECURSIVE ReduceAll(_)
ReduceAll(s) ==
    IF s.err = NoError /\ s.op_stack # <<>> THEN ReduceAll(ReduceStack(s)) ELSE s

ParseEndState(s, e) ==
    ReduceAll(IF Len(e) = 0 THEN PushOperator(s, "EmptyPlaceholder") ELSE s)

----------------------------------------------------------------------------
(***************************************************************************)
(* The parser as a state machine: one step per character read.             *)
(***************************************************************************)
NoResult == <<>>

ParserInit ==
    /\ expr = <<>>
    /\ stack = <<>>
    /\ op_stack = <<>>
    /\ paren_count_stack = <<>>
    /\ escaped = FALSE
    /\ insert_concat = FALSE
    /\ in_char_class = FALSE
    /\ char_class_buf = [class |-> CharClassNew, negate |-> FALSE]
    /\ char_range_buf = EmptyRangeBuf
    /\ ppc = "reading"
    /\ presult = NoResult

\* Store the parser state record `s` reached by reading `c`; an error ends
\* the parse (`?`).
Commit(s, c) ==
    /\ expr' = Append(expr, c)
    /\ stack' = s.stack
    /\ op_stack' = s.op_stack
    /\ paren_count_stack' = s.paren_count_stack
    /\ escaped' = s.escaped
    /\ insert_concat' = s.insert_concat
    /\ in_char_class' = s.in_char_class
    /\ char_class_buf' = s.char_class_buf
    /\ char_range_buf' = s.char_range_buf
    /\ ppc' = IF s.err = NoError THEN "reading" ELSE "err"
    /\ presult' = IF s.err = NoError THEN NoResult ELSE <<"Err", s.err>>
    /\ UNCHANGED <<lexVars, lrVars, itemVars>>

CanRead(c) == ppc = "reading" /\ InputFamily(Append(expr, c))

ReadUnion == CanRead("|") /\ Commit(ArmUnion(PState), "|")

ReadKleeneStar == CanRead("*") /\ Commit(ArmKleeneStar(PState), "*")

ReadPlus == CanRead("+") /\ Commit(ArmPlus(PState), "+")

ReadOptional == CanRead("?") /\ Commit(ArmOptional(PState), "?")

ReadLeftParen == CanRead("(") /\ Commit(ArmLeftParen(PState), "(")

ReadRightParen == CanRead(")") /\ Commit(ArmRightParen(PState), ")")

ReadLeftBracket == CanRead("[") /\ Commit(ArmLeftBracket(PState), "[")

ReadRightBracket == CanRead("]") /\ Commit(ArmRightBracket(PState), "]")

ReadBackslash == CanRead("\\") /\ Commit(ArmBackslash(PState), "\\")

ReadCaret == CanRead("^") /\ Commit(ArmCaret(PState), "^")

ReadDot == CanRead(".") /\ Commit(ArmDot(PState), ".")

ReadDefault == \E c \in OtherChars : CanRead(c) /\ Commit(ArmDefault(PState, c), c)

\* The input ends here.
ParseEnd ==
    /\ ppc = "reading"
    /\ LET s == ParseEndState(PState, expr)
       IN /\ stack' = s.stack
          /\ op_stack' = s.op_stack
          /\ ppc' = IF s.err = NoError THEN "ok" ELSE "err"
          /\ presult' = IF s.err # NoError THEN <<"Err", s.err>>
                        ELSE IF s.stack = <<>> THEN <<"None">>
                        ELSE <<"Some", Last(s.stack)>>
    /\ UNCHANGED <<expr, paren_count_stack, escaped, insert_concat, in_char_class,
                   char_class_buf, char_range_buf>>
    /\ UNCHANGED <<lexVars, lrVars, itemVars>>

ParserNext ==
    \/ ReadUnion
    \/ ReadKleeneStar
    \/ ReadPlus
    \/ ReadOptional
    \/ ReadLeftParen
    \/ ReadRightParen
    \/ ReadLeftBracket
    \/ ReadRightBracket
    \/ ReadBackslash
    \/ ReadCaret
    \/ ReadDot
    \/ ReadDefault
    \/ ParseEnd

----------------------------------------------------------------------------
(***************************************************************************)
(* `parse` as a function of the whole expression: the arms applied to the  *)
(* characters in order, as the loop of Parser::parse does.                 *)
(***************************************************************************)
InitialPState ==
    [stack |-> <<>>, op_stack |-> <<>>, paren_count_stack |-> <<>>,
     escaped |-> FALSE, insert_concat |-> FALSE, in_char_class |-> FALSE,
     char_class_buf |-> [class |-> CharClassNew, negate |-> FALSE],
     char_range_buf |-> EmptyRangeBuf, err |-> NoError]

ArmOf(s, c) ==
    CASE c = "|" -> ArmUnion(s)
      [] c = "*" -> ArmKleeneStar(s)
      [] c = "+" -> ArmPlus(s)
      [] c = "?" -> ArmOptional(s)
      [] c = "(" -> ArmLeftParen(s)
      [] c = ")" -> ArmRightParen(s)
      [] c = "[" -> ArmLeftBracket(s)
      [] c = "]" -> ArmRightBracket(s)
      [] c = "\\" -> ArmBackslash(s)
      [] c = "^" -> ArmCaret(s)
      [] c = "." -> ArmDot(s)
      [] OTHER -> ArmDefault(s, c)

RECURSIVE ParseLoop(_, _)
ParseLoop(s, e) ==
    IF e = <<>> \/ s.err # NoError THEN s
    ELSE ParseLoop(ArmOf(s, Head(e)), Tail(e))

Parse(e) ==
    LET s == ParseEndState(ParseLoop(InitialPState, e), e)
    IN IF s.err # NoError THEN <<"Err", s.err>>
       ELSE IF s.stack = <<>> THEN <<"None">>
       ELSE <<"Some", Last(s.stack)>>

----------------------------------------------------------------------------
(***************************************************************************)
(* NFA, DFA and the subset construction (the automata crate's nfa.rs and   *)
(* dfa.rs are not among the sources: modelled from the specification,      *)
(* sections 3, 4.2, 4.3 and 4.4).  States are indices 0..total_states-1;   *)
(* `trans` holds the labelled edges <<src, class, dst>> and `eps` the      *)
(* epsilon edges <<src, dst>>.                                             *)
(***************************************************************************)
NFANew ==
    [total_states |-> 1, initial_state |-> 0, final_states |-> {},
     trans |-> {}, eps |-> {}]

\* The edges of `src` re-based by `k`.
ShiftTrans(src, k) == {<<t[1] + k, t[2], t[3] + k>> : t \in src.trans}

ShiftEps(src, k) == {<<t[1] + k, t[2] + k>> : t \in src.eps}

ShiftSet(S, k) == {q + k : q \in S}

\* NFA::copy_into(dst, src): the states and edges of src appended to dst,
\* re-based by dst.total_states.
NFACopyInto(dst, src) ==
    [dst EXCEPT !.total_states = @ + src.total_states,
                !.trans = @ \cup ShiftTrans(src, dst.total_states),
                !.eps = @ \cup ShiftEps(src, dst.total_states)]

AddEpsilonTransition(nfa, from, to) == [nfa EXCEPT !.eps = @ \cup {<<from, to>>}]

\* The fragment of a shifted CharClass: two states and one labelled edge.
NFAClass(cls) ==
    [total_states |-> 2, initial_state |-> 0, final_states |-> {1},
     trans |-> {<<0, cls, 1>>}, eps |-> {}]

\* The fragment accepting the empty string.
NFAEpsilon ==
    [total_states |-> 1, initial_state |-> 0, final_states |-> {0},
     trans |-> {}, eps |-> {}]

NFAConcat(a, b) ==
    LET k == a.total_states
        c == NFACopyInto(a, b)
    IN [c EXCEPT !.final_states = ShiftSet(b.final_states, k),
                 !.eps = @ \cup {<<f, b.initial_state + k>> : f \in a.final_states}]

NFAUnion(a, b) ==
    LET ka == 1
        kb == 1 + a.total_states
        f  == 1 + a.total_states + b.total_states
    IN [total_states |-> f + 1, initial_state |-> 0, final_states |-> {f},
        trans |-> ShiftTrans(a, ka) \cup ShiftTrans(b, kb),
        eps |-> ShiftEps(a, ka) \cup ShiftEps(b, kb)
                \cup {<<0, a.initial_state + ka>>, <<0, b.initial_state + kb>>}
                \cup {<<q + ka, f>> : q \in a.final_states}
                \cup {<<q + kb, f>> : q \in b.final_states}]

NFAKleeneStar(a) ==
    LET f == 1 + a.total_states
    IN [total_states |-> f + 1, initial_state |-> 0, final_states |-> {f},
        trans |-> ShiftTrans(a, 1),
        eps |-> ShiftEps(a, 1)
                \cup {<<0, a.initial_state + 1>>, <<0, f>>}
                \cup {<<q + 1, a.initial_state + 1>> : q \in a.final_states}
                \cup {<<q + 1, f>> : q \in a.final_states}]

NFAPlus(a) == NFAConcat(a, NFAKleeneStar(a))

NFAOptional(a) == NFAUnion(a, NFAEpsilon)

\* The NFA of a fragment: its postfix term evaluated on a stack of NFAs.
RECURSIVE ToNFALoop(_, _)
ToNFALoop(frag, st) ==
    IF frag = <<>> THEN st
    ELSE LET tok == Head(frag)
             n   == Len(st)
             nxt ==
               CASE tok[1] = "Atom" -> Append(st, NFAClass(tok[2]))
                 [] tok[1] = "Epsilon" -> Append(st, NFAEpsilon)
                 [] tok[1] = "Concatenation" ->
                      Append(SubSeq(st, 1, n - 2), NFAConcat(st[n - 1], st[n]))
                 [] tok[1] = "Union" ->
                      Append(SubSeq(st, 1, n - 2), NFAUnion(st[n - 1], st[n]))
                 [] tok[1] = "KleeneStar" -> Append(Front(st), NFAKleeneStar(st[n]))
                 [] tok[1] = "Plus" -> Append(Front(st), NFAPlus(st[n]))
                 [] tok[1] = "Optional" -> Append(Front(st), NFAOptional(st[n]))
         IN ToNFALoop(Tail(frag), nxt)

ToNFA(frag) == ToNFALoop(frag, <<>>)[1]

ClassContains(cls, p) == \E r \in cls : r[1] <= p /\ p <= r[2]

RECURSIVE EpsilonClosure(_, _)
EpsilonClosure(nfa, S) ==
    LET S2 == S \cup {t[2] : t \in {e \in nfa.eps : e[1] \in S}}
    IN IF S2 = S THEN S ELSE EpsilonClosure(nfa, S2)

Move(nfa, S, p) == {t[3] : t \in {x \in nfa.trans : x[1] \in S /\ ClassContains(x[2], p)}}

\* The refinement of the labels leaving the NFA set S: the code points that
\* some label holds, grouped by the set of labels that hold them.
LabelsFrom(nfa, S) == {t[2] : t \in {x \in nfa.trans : x[1] \in S}}

Signature(labels, p) == {l \in labels : ClassContains(l, p)}

Cells(nfa, S) ==
    LET labels == LabelsFrom(nfa, S)
        pts    == {p \in 0..MaxCodePoint : Signature(labels, p) # {}}
    IN {{q \in pts : Signature(labels, q) = Signature(labels, p)} : p \in pts}

MinOf(S) == CHOOSE x \in S : \A y \in S : x <= y

IndexOf(seq, x) == CHOOSE i \in 1..Len(seq) : seq[i] = x

\* The worklist of the subset construction: `ds` is the list of DFA states
\* (NFA sets) found so far, `i` the one being expanded, `cells` its cells not
\* yet followed, `tr` the DFA edges so far.
RECURSIVE SubsetLoop(_, _, _, _, _)
SubsetLoop(nfa, ds, i, cells, tr) ==
    IF i > Len(ds) THEN [states |-> ds, trans |-> tr]
    ELSE IF cells = {}
         THEN IF i + 1 > Len(ds) THEN [states |-> ds, trans |-> tr]
              ELSE SubsetLoop(nfa, ds, i + 1, Cells(nfa, ds[i + 1]), tr)
    ELSE LET cell == CHOOSE c \in cells : \A d \in cells : MinOf(c) <= MinOf(d)
             U    == EpsilonClosure(nfa, Move(nfa, ds[i], MinOf(cell)))
             ds2  == IF U \in SeqRange(ds) THEN ds ELSE Append(ds, U)
         IN SubsetLoop(nfa, ds2, i, cells \ {cell},
                       tr \cup {<<i - 1, RangesOf(cell), IndexOf(ds2, U) - 1>>})

\* DFAFromNFA: the DFA and, for each DFA state, the NFA set it stands for.
DFAFromNFA(nfa) ==
    LET T0 == EpsilonClosure(nfa, {nfa.initial_state})
        r  == SubsetLoop(nfa, <<T0>>, 1, Cells(nfa, T0), {})
        n  == Len(r.states)
    IN [dfa |-> [total_states |-> n, initial_state |-> 0,
                 final_states |-> {d \in 0..(n - 1) :
                                     r.states[d + 1] \cap nfa.final_states # {}},
                 trans |-> r.trans],
        nfa_mapping |-> [d \in 0..(n - 1) |-> r.states[d + 1]]]

\* The DFA state after reading c in state q, or -1 when no edge matches.
DFAStep(dfa, q, c) ==
    LET nxt == {t \in dfa.trans : t[1] = q /\ ClassContains(t[2], Ord(c))}
    IN IF nxt = {} THEN -1 ELSE (CHOOSE t \in nxt : TRUE)[3]

\* DFA::find: walk one step per symbol, recording the last position at which
\* the current state is final; stop when no edge matches the next symbol.
RECURSIVE FindLoop(_, _, _, _, _)
FindLoop(dfa, input, pos, q, best) ==
    LET best2 == IF q \in dfa.final_states THEN <<"Some", pos, q>> ELSE best
    IN IF pos = Len(input) THEN best2
       ELSE LET q2 == DFAStep(dfa, q, input[pos + 1])
            IN IF q2 = -1 THEN best2
               ELSE FindLoop(dfa, input, pos + 1, q2, best2)

DFAFind(dfa, input) == FindLoop(dfa, input, 0, dfa.initial_state, <<"None">>)

----------------------------------------------------------------------------
(***************************************************************************)
(* The lexer combiner: parse_combined_nfa and the dfa_actions table of the *)
(* `lexer` macro.  A rule is [regexp, action]; an action expression is     *)
(* modelled by what it returns: Ok(Some(token)), Ok(None) or Err.          *)
(***************************************************************************)
\* The filter_map over the rules: a rule whose regexp does not parse to
\* Ok(Some(nfa)) is dropped.
\* One rule of the filter_map: dropped when its regular expression does not
\* parse to an NFA.
ParsedRule(r, p) ==
    IF p[1] = "Some" THEN <<[nfa |-> ToNFA(p[2]), action |-> r.action]>>
    ELSE <<>>

RECURSIVE NfaSub(_)
NfaSub(rs) ==
    IF rs = <<>> THEN <<>>
    ELSE ParsedRule(Head(rs), Parse(Head(rs).regexp)) \o NfaSub(Tail(rs))

INVALID_REGEXP_ERROR == "invalid regular expression"

\* The error diagnostic the filter_map emits for a rule it drops.
EmittedFor(r, p) ==
    IF p[1] = "Some" THEN <<>>
    ELSE IF p[1] = "Err" THEN <<<<INVALID_REGEXP_ERROR, p[2]>>>>
    ELSE <<<<INVALID_REGEXP_ERROR>>>>

RECURSIVE Emitted(_)
Emitted(rs) ==
    IF rs = <<>> THEN <<>>
    ELSE EmittedFor(Head(rs), Parse(Head(rs).regexp)) \o Emitted(Tail(rs))

\* The combining loop with an offset that is never advanced.
RECURSIVE CombineLoop_FixedOffset(_, _, _, _, _)
CombineLoop_FixedOffset(subs, k, nfa, am, offset) ==
    IF k >= Len(subs) THEN [nfa |-> nfa, action_mapping |-> am]
    ELSE LET sub    == subs[k + 1].nfa
             n1     == NFACopyInto(nfa, sub)
             n2     == AddEpsilonTransition(n1, n1.initial_state,
                                            sub.initial_state + offset)
             finals == ShiftSet(sub.final_states, offset)
             n3     == [n2 EXCEPT !.final_states = @ \cup finals]
             am2    == [q \in (DOMAIN am) \cup finals |->
                          IF q \in finals
                          THEN [action |-> subs[k + 1].action, precedence |-> k]
                          ELSE am[q]]
         IN CombineLoop_FixedOffset(subs, k + 1, n3, am2, offset)

\* The combining loop tagging every rule with precedence 0.
RECURSIVE CombineLoop_OnePrecedence(_, _, _, _, _)
CombineLoop_OnePrecedence(subs, k, nfa, am, offset) ==
    IF k >= Len(subs) THEN [nfa |-> nfa, action_mapping |-> am]
    ELSE LET sub    == subs[k + 1].nfa
             n1     == NFACopyInto(nfa, sub)
             n2     == AddEpsilonTransition(n1, n1.initial_state,
                                            sub.initial_state + offset)
             finals == ShiftSet(sub.final_states, offset)
             n3     == [n2 EXCEPT !.final_states = @ \cup finals]
             am2    == [q \in (DOMAIN am) \cup finals |->
                          IF q \in finals
                          THEN [action |-> subs[k + 1].action, precedence |-> 0]
                          ELSE am[q]]
         IN CombineLoop_OnePrecedence(subs, k + 1, n3, am2,
                                      offset + sub.total_states)

\* The loop combining the sub-NFAs; `k` is the precedence (enumerate index).
RECURSIVE CombineLoop(_, _, _, _, _)
CombineLoop(subs, k, nfa, am, offset) ==
    IF k >= Len(subs) THEN [nfa |-> nfa, action_mapping |-> am]
    ELSE LET sub    == subs[k + 1].nfa
             n1     == NFACopyInto(nfa, sub)
             n2     == AddEpsilonTransition(n1, n1.initial_state,
                                            sub.initial_state + offset)
             finals == ShiftSet(sub.final_states, offset)
             n3     == [n2 EXCEPT !.final_states = @ \cup finals]
             am2    == [q \in (DOMAIN am) \cup finals |->
                          IF q \in finals
                          THEN [action |-> subs[k + 1].action, precedence |-> k]
                          ELSE am[q]]
         IN CombineLoop(subs, k + 1, n3, am2, offset + sub.total_states)

\* What parse_combined_nfa returns, with the diagnostics it emitted.
Combined(c, diagnostics) ==
    [nfa |-> c.nfa, action_mapping |-> c.action_mapping,
     diagnostics |-> diagnostics]

ParseCombinedNFA(rs) ==
    Combined(CombineLoop(NfaSub(rs), 0, NFANew, <<>>, NFANew.total_states),
             Emitted(rs))

\* C39 mutant: only the least NFA state of a DFA state's set is looked up in
\* action_mapping.
Candidates_LeastState(am, nfa_states) ==
    {q \in DOMAIN am : q \in nfa_states /\ \A p \in nfa_states : q <= p}

\* The entries of action_mapping whose NFA state lies in a DFA state's set.
Candidates(am, nfa_states) == {q \in DOMAIN am : q \in nfa_states}

\* C4 mutant: the candidate of greatest precedence number is taken.
MinByKey_Max(am, cands) ==
    CHOOSE q \in cands : \A r \in cands : am[q].precedence >= am[r].precedence

\* min_by_key over the precedence.
MinByKey(am, cands) ==
    CHOOSE q \in cands : \A r \in cands : am[q].precedence <= am[r].precedence

\* dfa_actions: the DFA states that hold a tagged NFA final state, each with
\* the action of lowest precedence number.
DfaActions(nm, am) ==
    [d \in {x \in DOMAIN nm : Candidates(am, nm[x]) # {}} |->
        am[MinByKey(am, Candidates(am, nm[d]))].action]

\* dfa_rebuilt: the DFA the generated `new` builds, field by field, every
\* range of every transition through CharRange::new.
DfaRebuilt(dfa) ==
    [total_states |-> dfa.total_states,
     initial_state |-> dfa.initial_state,
     final_states |-> dfa.final_states,
     trans |-> {<<t[1], {CharRangeNew(r[1], r[2]) : r \in t[2]}, t[3]>> :
                  t \in dfa.trans}]

\* What the `lexer` macro builds from the rules.
LexerOf(c, d) ==
    [nfa |-> c.nfa, action_mapping |-> c.action_mapping,
     dfa |-> DfaRebuilt(d.dfa), nfa_mapping |-> d.nfa_mapping,
     dfa_actions |-> DfaActions(d.nfa_mapping, c.action_mapping),
     diagnostics |-> c.diagnostics]

WithDFA(c) == LexerOf(c, DFAFromNFA(c.nfa))

BuildLexer(rs) == WithDFA(ParseCombinedNFA(rs))

----------------------------------------------------------------------------
(***************************************************************************)
(* The rules and inputs the lexer is checked on.                           *)
(***************************************************************************)
ReInt == <<"[", "0", "-", "9", "]", "+">>

ReIdent == <<"[", "a", "-", "z", "A", "-", "Z", "_", "]",
             "[", "a", "-", "z", "A", "-", "Z", "0", "-", "9", "_", "]", "*">>

ReWs == <<"[", " ", "\t", "\n", "]", "+">>

RuleInt == [regexp |-> ReInt, action |-> [kind |-> "Some", name |-> "INT"]]

RuleIdent == [regexp |-> ReIdent, action |-> [kind |-> "Some", name |-> "IDENT"]]

RuleWs == [regexp |-> ReWs, action |-> [kind |-> "None", name |-> "WS"]]

\* x* matches the empty string.
RuleXs == [regexp |-> <<"x", "*">>, action |-> [kind |-> "Some", name |-> "XS"]]

\* A two-character match that is skipped.
RuleSkip == [regexp |-> <<"=", "x">>, action |-> [kind |-> "None", name |-> "SKIP"]]

\* A rule whose action returns an error.
RuleBad == [regexp |-> <<"=", "=">>, action |-> [kind |-> "Err", name |-> "BAD"]]

\* A rule whose regular expression does not parse: an empty class.
RuleInvalid == [regexp |-> <<"[", "]">>, action |-> [kind |-> "Some", name |-> "INVALID"]]

RuleCatalogue ==
    {RuleInt, RuleIdent, RuleWs, RuleXs, RuleSkip, RuleBad, RuleInvalid}

\* The lexer of scenario S3 and its input.
S3Rules == <<RuleInt, RuleIdent, RuleWs>>

S3Input == <<"l", "e", "t", " ", "x", " ", "=", " ", "4", "2">>

\* The longest rule list besides S3Rules, and the longest input besides S3Input.
MaxRules == 2

MaxInputLen == 3

RuleLists ==
    {S3Rules} \cup
    {rs \in UNION {[1..n -> RuleCatalogue] : n \in 1..MaxRules} :
        \A i, j \in DOMAIN rs : i # j => rs[i] # rs[j]}

InputChars == {"x", "4", " ", "="}

Inputs == {S3Input} \cup UNION {[1..n -> InputChars] : n \in 0..MaxInputLen}

----------------------------------------------------------------------------
(***************************************************************************)
(* Grammars (lalr/src/grammar.rs is not among the sources: the shape is    *)
(* that of its uses in lr1.rs and lalr.rs).  A grammar is [start, rules],  *)
(* `rules` mapping each nonterminal to its ordered list of bodies; a body  *)
(* is a sequence of symbols, a symbol being a nonterminal when it has an   *)
(* entry in `rules`.                                                       *)
(***************************************************************************)
\* The terminals and nonterminals, each in the order of its type.
TermOrder == <<"a", "b", "=", "+", "*", "(", ")", "id">>

NontermOrder == <<"P", "E", "S", "A", "L", "R", "T", "F">>

SymbolOrder == TermOrder \o NontermOrder

IsNonterminal(g, x) == x \in DOMAIN g.rules

Item(lhs, rhs, pos) == [lhs |-> lhs, rhs |-> rhs, pos |-> pos]

\* Item::next_symbol: Some(symbol after the dot) or None.
NextSymbol(item) ==
    IF item.pos < Len(item.rhs) THEN <<item.rhs[item.pos + 1]>> ELSE <<>>

\* C10 mutant: the construction starts from the last production of the start
\* symbol.
InitialItem_LastProduction(g) ==
    Item(g.start, g.rules[g.start][Len(g.rules[g.start])], 0)

\* The item the LR(0) construction starts from: the first production of the
\* grammar's start symbol, with the dot in front.
InitialItem(g) == Item(g.start, g.rules[g.start][1], 0)

ProdItems(g, B) == {Item(B, g.rules[B][k], 0) : k \in DOMAIN g.rules[B]}

\* closure(I): the least set holding I and [B -> .gamma] for every item with
\* the dot in front of B.
RECURSIVE Closure(_, _)
Closure(g, I) ==
    LET new == UNION {ProdItems(g, NextSymbol(it)[1]) :
                        it \in {x \in I : /\ NextSymbol(x) # <<>>
                                          /\ IsNonterminal(g, NextSymbol(x)[1])}}
    IN IF new \subseteq I THEN I ELSE Closure(g, I \cup new)

\* goto(I, X)
Goto(g, I, X) ==
    Closure(g, {Item(it.lhs, it.rhs, it.pos + 1) :
                  it \in {x \in I : NextSymbol(x) = <<X>>}})

AddState(sts, J) ==
    IF J = {} \/ (\E n \in DOMAIN sts : sts[n] = J) THEN sts ELSE Append(sts, J)

RECURSIVE AddTargets(_, _, _, _)
AddTargets(g, sts, I, j) ==
    IF j > Len(SymbolOrder) THEN sts
    ELSE AddTargets(g, AddState(sts, Goto(g, I, SymbolOrder[j])), I, j + 1)

\* The worklist: the item sets in the order they are found.
RECURSIVE LR0Loop(_, _, _)
LR0Loop(g, sts, k) ==
    IF k > Len(sts) THEN sts
    ELSE LR0Loop(g, AddTargets(g, sts, sts[k], 1), k + 1)

\* Index (from 0) of an item set among the states.
StateIndex(sts, J) == (CHOOSE n \in DOMAIN sts : sts[n] = J) - 1

GotoSymbols(g, I) == SelectSeq(SymbolOrder, LAMBDA X : Goto(g, I, X) # {})

\* The transitions of a state, as its (symbol, destination) pairs in order.
TransitionsOf(g, sts, I) ==
    [n \in DOMAIN GotoSymbols(g, I) |->
        <<GotoSymbols(g, I)[n], StateIndex(sts, Goto(g, I, GotoSymbols(g, I)[n]))>>]

AutomatonOf(g, sts) ==
    [states |-> [i \in DOMAIN sts |->
                    [items |-> sts[i], transitions |-> TransitionsOf(g, sts, sts[i])]],
     start  |-> 0]

\* Grammar::lr0_automaton
LR0Automaton(g) == AutomatonOf(g, LR0Loop(g, <<Closure(g, {InitialItem(g)})>>, 1))

----------------------------------------------------------------------------
(***************************************************************************)
(* FIRST and FOLLOW (grammar.rs is not among the sources: modelled from    *)
(* the specification, section 4.6).                                        *)
(***************************************************************************)
Bodies(g, A) == {g.rules[A][k] : k \in DOMAIN g.rules[A]}

RECURSIVE NullableFix(_, _)
NullableFix(g, N) ==
    LET N2 == N \cup {A \in DOMAIN g.rules :
                        \E body \in Bodies(g, A) :
                            \A i \in DOMAIN body : body[i] \in N}
    IN IF N2 = N THEN N ELSE NullableFix(g, N2)

Nullable(g) == NullableFix(g, {})

\* FIRST of a sequence of symbols, without epsilon.
FirstOfSeq(g, nl, F, seq) ==
    UNION {IF IsNonterminal(g, seq[i]) THEN F[seq[i]] ELSE {seq[i]} :
             i \in {j \in DOMAIN seq : \A h \in 1..(j - 1) : seq[h] \in nl}}

RECURSIVE FirstFix(_, _, _)
FirstFix(g, nl, F) ==
    LET F2 == [A \in DOMAIN g.rules |->
                 F[A] \cup UNION {FirstOfSeq(g, nl, F, body) : body \in Bodies(g, A)}]
    IN IF F2 = F THEN F ELSE FirstFix(g, nl, F2)

FirstSets(g) == FirstFix(g, Nullable(g), [A \in DOMAIN g.rules |-> {}])

EndMarker == "$"

\* What the occurrence of B at body[i] of a production of A adds to FOLLOW(B).
FollowOfOccurrence(g, nl, F, Fo, A, body, i) ==
    FirstOfSeq(g, nl, F, SubSeq(body, i + 1, Len(body)))
      \cup (IF \A h \in (i + 1)..Len(body) : body[h] \in nl THEN Fo[A] ELSE {})

\* Every occurrence of a symbol in a body: <<lhs, body, index>>.
OccurrencesOf(g, A) ==
    UNION {{<<A, body, i>> : i \in DOMAIN body} : body \in Bodies(g, A)}

Occurrences(g) == UNION {OccurrencesOf(g, A) : A \in DOMAIN g.rules}

RECURSIVE FollowFix(_, _, _, _)
FollowFix(g, nl, F, Fo) ==
    LET Fo2 == [B \in DOMAIN g.rules |->
                  Fo[B] \cup UNION {FollowOfOccurrence(g, nl, F, Fo, o[1], o[2], o[3]) :
                                      o \in {x \in Occurrences(g) : x[2][x[3]] = B}}]
    IN IF Fo2 = Fo THEN Fo ELSE FollowFix(g, nl, F, Fo2)

SeededFollow(g) == [A \in DOMAIN g.rules |-> IF A = g.start THEN {EndMarker} ELSE {}]

FollowWith(g, nl, F) == FollowFix(g, nl, F, SeededFollow(g))

FollowWithNullable(g, nl) == FollowWith(g, nl, FirstFix(g, nl, [A \in DOMAIN g.rules |-> {}]))

\* Grammar::follow_sets(None): per nonterminal, (set of terminals, endmarker).
FollowSets(g) ==
    [A \in DOMAIN g.rules |->
        [set |-> FollowWithNullable(g, Nullable(g))[A] \ {EndMarker},
         endmarker |-> EndMarker \in FollowWithNullable(g, Nullable(g))[A]]]

----------------------------------------------------------------------------
(***************************************************************************)
(* LR(1) states, actions and conflicts (lalr/src/lr1.rs).  An Option is a  *)
(* sequence of length 0 or 1.                                              *)
(***************************************************************************)
Shift(dest) == [kind |-> "Shift", dest |-> dest, lhs |-> "", rhs |-> <<>>]

Reduce(n, rhs) == [kind |-> "Reduce", dest |-> 0, lhs |-> n, rhs |-> rhs]

Accept == [kind |-> "Accept", dest |-> 0, lhs |-> "", rhs |-> <<>>]

ShiftReduce(sy, dest, n, rhs) ==
    [kind |-> "ShiftReduce", shift |-> <<sy, dest>>, reduce |-> <<n, rhs>>]

ReduceReduce(n1, rhs1, n2, rhs2) ==
    [kind |-> "ReduceReduce", r1 |-> <<n1, rhs1>>, r2 |-> <<n2, rhs2>>]

\* LR1State { actions: BTreeMap::new(), endmarker: None, goto: BTreeMap::new() }
NewLR1State == [actions |-> <<>>, endmarker |-> <<>>, goto |-> <<>>]

\* BTreeMap::insert
MapInsert(map, key, value) ==
    [k \in (DOMAIN map) \cup {key} |-> IF k = key THEN value ELSE map[k]]

\* C11 mutant: a Shift against a Reduce is reported as ReduceReduce.
DetermineConflict_ReduceReduceOnly(a1, a2, sy) ==
    IF {a1.kind, a2.kind} \subseteq {"Shift", "Reduce"} /\ "Reduce" \in {a1.kind, a2.kind}
    THEN <<ReduceReduce(a1.lhs, a1.rhs, a2.lhs, a2.rhs)>>
    ELSE <<>>

\* C36 mutant: a reduce-reduce conflict names the new action first.
DetermineConflict_NewFirst(a1, a2, sy) ==
    CASE a1.kind = "Reduce" ->
           (CASE a2.kind = "Reduce" ->
                   <<ReduceReduce(a2.lhs, a2.rhs, a1.lhs, a1.rhs)>>
              [] a2.kind = "Shift" ->
                   <<ShiftReduce(sy, a2.dest, a1.lhs, a1.rhs)>>
              [] OTHER -> <<>>)
      [] a1.kind = "Shift" ->
           (CASE a2.kind = "Reduce" ->
                   <<ShiftReduce(sy, a1.dest, a2.lhs, a2.rhs)>>
              [] OTHER -> <<>>)
      [] OTHER -> <<>>

\* LR1State::determine_conflict: Some(conflict) or None.
DetermineConflict(a1, a2, sy) ==
    CASE a1.kind = "Reduce" ->
           (CASE a2.kind = "Reduce" ->
                   <<ReduceReduce(a1.lhs, a1.rhs, a2.lhs, a2.rhs)>>
              [] a2.kind = "Shift" ->
                   <<ShiftReduce(sy, a2.dest, a1.lhs, a1.rhs)>>
              [] OTHER -> <<>>)
      [] a1.kind = "Shift" ->
           (CASE a2.kind = "Reduce" ->
                   <<ShiftReduce(sy, a1.dest, a2.lhs, a2.rhs)>>
              [] OTHER -> <<>>)
      [] OTHER -> <<>>

\* `determine_conflict(..).unwrap()` followed by `Err(conflict)`: the unwrap
\* of None panics.
UnwrapConflict(c) ==
    IF c = <<>> THEN [tag |-> "Panic"] ELSE [tag |-> "Err", conflict |-> c[1]]

\* LR1State::set_action on the state `st`: Ok with the state as changed, Err
\* with the conflict, or a panic.
SetAction(st, sy, action) ==
    IF sy # <<>>
    THEN IF sy[1] \in DOMAIN st.actions
         THEN UnwrapConflict(DetermineConflict(st.actions[sy[1]], action, sy))
         ELSE [tag |-> "Ok",
               state |-> [st EXCEPT !.actions = MapInsert(@, sy[1], action)]]
    ELSE IF st.endmarker # <<>>
         THEN UnwrapConflict(DetermineConflict(st.endmarker[1], action, <<>>))
         ELSE [tag |-> "Ok", state |-> [st EXCEPT !.endmarker = <<action>>]]

----------------------------------------------------------------------------
(***************************************************************************)
(* Grammar::slr1_table: the steps of one LR(0) state, in the order of the  *)
(* code (its transitions, then its items).                                 *)
(***************************************************************************)
SetActionOp(sy, action) == [op |-> "set_action", sy |-> sy, action |-> action]

GotoOp(n, dest) == [op |-> "goto", sy |-> <<n>>, action |-> Shift(dest)]

\* C12 mutant: terminal transitions set no Shift.
TransitionOps_GotoOnly(g, tr) ==
    [k \in DOMAIN SelectSeq(tr, LAMBDA e : IsNonterminal(g, e[1])) |->
        GotoOp(SelectSeq(tr, LAMBDA e : IsNonterminal(g, e[1]))[k][1],
               SelectSeq(tr, LAMBDA e : IsNonterminal(g, e[1]))[k][2])]

\* `for (sy, dest) in lr0_state.transitions`
TransitionOps(g, tr) ==
    [k \in DOMAIN tr |->
        IF IsNonterminal(g, tr[k][1]) THEN GotoOp(tr[k][1], tr[k][2])
        ELSE SetActionOp(<<tr[k][1]>>, Shift(tr[k][2]))]

\* C8 mutant: the Reduce on the endmarker is left out.
ReduceOps_NoEndmarker(item, fo) ==
    [k \in DOMAIN SelectSeq(TermOrder, LAMBDA t : t \in fo.set) |->
        SetActionOp(<<SelectSeq(TermOrder, LAMBDA t : t \in fo.set)[k]>>,
                    Reduce(item.lhs, item.rhs))]

\* `for sy in follow_set`, then `if *endmarker`
ReduceOps(item, fo) ==
    [k \in DOMAIN SelectSeq(TermOrder, LAMBDA t : t \in fo.set) |->
        SetActionOp(<<SelectSeq(TermOrder, LAMBDA t : t \in fo.set)[k]>>,
                    Reduce(item.lhs, item.rhs))]
      \o (IF fo.endmarker THEN <<SetActionOp(<<>>, Reduce(item.lhs, item.rhs))>>
          ELSE <<>>)

\* The body of `for item in lr0_state.items`.
ItemOps(g, fs, item) ==
    IF item.pos = Len(item.rhs)
    THEN IF item.lhs # g.start THEN ReduceOps(item, fs[item.lhs])
         ELSE <<SetActionOp(<<>>, Accept)>>
    ELSE <<>>

IndexIn(seq, x) == CHOOSE k \in DOMAIN seq : seq[k] = x

\* The place of an item in the order of the item set: by lhs, rhs and pos.
ItemKey(g, item) ==
    (IndexIn(NontermOrder, item.lhs) * 100)
      + (IndexIn(g.rules[item.lhs], item.rhs) * 10) + item.pos

RECURSIVE ItemsInOrder(_, _)
ItemsInOrder(g, I) ==
    IF I = {} THEN <<>>
    ELSE LET first == CHOOSE x \in I : \A y \in I : ItemKey(g, x) <= ItemKey(g, y)
         IN <<first>> \o ItemsInOrder(g, I \ {first})

RECURSIVE AllItemOps(_, _, _)
AllItemOps(g, fs, items) ==
    IF items = <<>> THEN <<>>
    ELSE ItemOps(g, fs, Head(items)) \o AllItemOps(g, fs, Tail(items))

StateOps(g, fs, lr0_state) ==
    TransitionOps(g, lr0_state.transitions)
      \o AllItemOps(g, fs, ItemsInOrder(g, lr0_state.items))

\* The most tokens the scanning loop collects (a rule that matches the empty
\* string lets `advance` return the input unchanged, for ever).
MaxTokens == 4

----------------------------------------------------------------------------
(***************************************************************************)
(* The generated scanner: `advance` of llex-derive, one step per stage of  *)
(* a call, and a caller that scans an input by calling it repeatedly.      *)
(***************************************************************************)
Take(s, n) == SubSeq(s, 1, IF n < Len(s) THEN n ELSE Len(s))

Skip(s, n) == SubSeq(s, n + 1, Len(s))

\* C5 mutant: the action is handed the whole input.
SpanOf_WholeInput(input, mt) == input

\* `input.chars().take(m.end()).collect()`: the text handed to the action.
SpanOf(input, mt) == Take(input, mt[2])

\* `input.chars().skip(m.end()).collect()`
RemainingAfterMatch(input, mt) == Skip(input, mt[2])

\* C2 mutant: the restart after Ok(None) drops the whole match.
RemainingAfterSkip_WholeMatch(input, mt) == Skip(input, mt[2])

\* C38 mutant: the restart after Ok(None) drops two characters.
RemainingAfterSkip_TwoChars(input, mt) == Skip(input, 2)

\* `input.chars().skip(1).collect()`: the input of the restart after Ok(None).
RemainingAfterSkip(input, mt) == Skip(input, 1)

\* C3 mutant: no match is reported as the end of the input.
NoMatchReturn_EndOfInput(input) ==
    [result |-> <<"None">>, remaining |-> <<>>]

\* The return of `advance` when DFA::find reports no match.
NoMatchReturn(input) ==
    [result |-> <<"Err", "no_match_error">>, remaining |-> input]

\* What the action expression of a rule evaluates to on the matched text.
ActionResult(action, text) ==
    CASE action.kind = "Some" -> <<"Some", [name |-> action.name, text |-> text]>>
      [] action.kind = "None" -> <<"None">>
      [] action.kind = "Err" -> <<"Err", action.name>>

NoReturn == [result |-> <<"Pending">>, remaining |-> <<>>]

LexInit ==
    /\ rules \in RuleLists
    /\ lexer = BuildLexer(rules)
    /\ src_input = <<>>
    /\ call_input = <<>>
    /\ adv_input = <<>>
    /\ depth = 0
    /\ lpc = IF lexer.diagnostics = <<>> THEN "new" ELSE "rejected"
    /\ m = <<"None">>
    /\ span = <<>>
    /\ run_action = <<>>
    /\ token_res = <<"NotRun">>
    /\ ret = NoReturn
    /\ tokens = <<>>

\* The caller starts scanning an input: the first call of `advance`.
Scan ==
    /\ lpc = "new"
    /\ \E inp \in Inputs :
          /\ src_input' = inp
          /\ call_input' = inp
          /\ adv_input' = inp
    /\ depth' = 0
    /\ lpc' = "find"
    /\ UNCHANGED <<rules, lexer, m, span, run_action, token_res, ret, tokens>>
    /\ UNCHANGED <<parserVars, lrVars, itemVars>>

\* `self.dfa.find(&input.chars())` returns Some(m).
AdvanceFind ==
    /\ lpc = "find"
    /\ DFAFind(lexer.dfa, adv_input)[1] = "Some"
    /\ m' = DFAFind(lexer.dfa, adv_input)
    /\ lpc' = "action"
    /\ UNCHANGED <<rules, lexer, src_input, call_input, adv_input, depth, span,
                   run_action, token_res, ret, tokens>>
    /\ UNCHANGED <<parserVars, lrVars, itemVars>>

\* C6 mutant: on no match one character is skipped and matching is retried.
AdvanceNoMatch_SkipAndRetry ==
    /\ lpc = "find"
    /\ DFAFind(lexer.dfa, adv_input)[1] = "None"
    /\ IF adv_input # <<>>
       THEN /\ adv_input' = Tail(adv_input)
            /\ depth' = depth + 1
            /\ lpc' = "find"
            /\ UNCHANGED ret
       ELSE /\ ret' = [result |-> <<"None">>, remaining |-> <<>>]
            /\ lpc' = "ret"
            /\ UNCHANGED <<adv_input, depth>>
    /\ UNCHANGED <<rules, lexer, src_input, call_input, m, span, run_action,
                   token_res, tokens>>
    /\ UNCHANGED <<parserVars, lrVars, itemVars>>

\* `self.dfa.find(&input.chars())` returns None: the early return.
AdvanceNoMatch ==
    /\ lpc = "find"
    /\ DFAFind(lexer.dfa, adv_input)[1] = "None"
    /\ ret' = NoMatchReturn(adv_input)
    /\ lpc' = "ret"
    /\ UNCHANGED <<rules, lexer, src_input, call_input, adv_input, depth, m, span,
                   run_action, token_res, tokens>>
    /\ UNCHANGED <<parserVars, lrVars, itemVars>>

\* The action of the final state is run on the matched text; a final state
\* without an action reaches the catch-all `panic!()`.
AdvanceAction ==
    /\ lpc = "action"
    /\ span' = SpanOf(adv_input, m)
    /\ IF m[3] \in DOMAIN lexer.dfa_actions
       THEN /\ run_action' = <<lexer.dfa_actions[m[3]]>>
            /\ token_res' = ActionResult(lexer.dfa_actions[m[3]], span')
            /\ lpc' = "dispatch"
       ELSE /\ lpc' = "panic"
            /\ UNCHANGED <<run_action, token_res>>
    /\ UNCHANGED <<rules, lexer, src_input, call_input, adv_input, depth, m, ret,
                   tokens>>
    /\ UNCHANGED <<parserVars, lrVars, itemVars>>

\* Ok(Some(t)): the token and the input after the match are returned.
AdvanceReturnToken ==
    /\ lpc = "dispatch"
    /\ token_res[1] = "Some"
    /\ ret' = [result |-> token_res, remaining |-> RemainingAfterMatch(adv_input, m)]
    /\ lpc' = "ret"
    /\ UNCHANGED <<rules, lexer, src_input, call_input, adv_input, depth, m, span,
                   run_action, token_res, tokens>>
    /\ UNCHANGED <<parserVars, lrVars, itemVars>>

\* Ok(None) with input left after the skip: `self.advance(&remaining)`.
AdvanceSkip ==
    /\ lpc = "dispatch"
    /\ token_res[1] = "None"
    /\ RemainingAfterSkip(adv_input, m) # <<>>
    /\ adv_input' = RemainingAfterSkip(adv_input, m)
    /\ depth' = depth + 1
    /\ lpc' = "find"
    /\ UNCHANGED <<rules, lexer, src_input, call_input, m, span, run_action,
                   token_res, ret, tokens>>
    /\ UNCHANGED <<parserVars, lrVars, itemVars>>

\* Ok(None) with nothing left after the skip: (Ok(None), String::new()).
AdvanceSkipEnd ==
    /\ lpc = "dispatch"
    /\ token_res[1] = "None"
    /\ RemainingAfterSkip(adv_input, m) = <<>>
    /\ ret' = [result |-> <<"None">>, remaining |-> <<>>]
    /\ lpc' = "ret"
    /\ UNCHANGED <<rules, lexer, src_input, call_input, adv_input, depth, m, span,
                   run_action, token_res, tokens>>
    /\ UNCHANGED <<parserVars, lrVars, itemVars>>

\* The action returned Err: the error and the input after the match.
AdvanceReturnErr ==
    /\ lpc = "dispatch"
    /\ token_res[1] = "Err"
    /\ ret' = [result |-> token_res, remaining |-> RemainingAfterMatch(adv_input, m)]
    /\ lpc' = "ret"
    /\ UNCHANGED <<rules, lexer, src_input, call_input, adv_input, depth, m, span,
                   run_action, token_res, tokens>>
    /\ UNCHANGED <<parserVars, lrVars, itemVars>>

\* The caller keeps the token and calls `advance` on the remaining input.
ScanNext ==
    /\ lpc = "ret"
    /\ ret.result[1] = "Some"
    /\ ret.remaining # <<>>
    /\ Len(tokens) + 1 < MaxTokens
    /\ tokens' = Append(tokens, ret.result[2])
    /\ call_input' = ret.remaining
    /\ adv_input' = ret.remaining
    /\ depth' = 0
    /\ lpc' = "find"
    /\ UNCHANGED <<rules, lexer, src_input, m, span, run_action, token_res, ret>>
    /\ UNCHANGED <<parserVars, lrVars, itemVars>>

\* The caller stops: the input is exhausted, or `advance` returned Ok(None)
\* or an error.
ScanEnd ==
    /\ lpc = "ret"
    /\ \/ ret.result[1] # "Some"
       \/ ret.remaining = <<>>
    /\ tokens' = IF ret.result[1] = "Some" THEN Append(tokens, ret.result[2])
                 ELSE tokens
    /\ lpc' = "done"
    /\ UNCHANGED <<rules, lexer, src_input, call_input, adv_input, depth, m, span,
                   run_action, token_res, ret>>
    /\ UNCHANGED <<parserVars, lrVars, itemVars>>

LexNext ==
    \/ Scan
    \/ AdvanceFind
    \/ AdvanceNoMatch
    \/ AdvanceAction
    \/ AdvanceReturnToken
    \/ AdvanceSkip
    \/ AdvanceSkipEnd
    \/ AdvanceReturnErr
    \/ ScanNext
    \/ ScanEnd

\* The lexer while another subsystem runs.
LexIdle ==
    /\ rules = <<>>
    /\ lexer = <<>>
    /\ src_input = <<>>
    /\ call_input = <<>>
    /\ adv_input = <<>>
    /\ depth = 0
    /\ lpc = "idle"
    /\ m = <<"None">>
    /\ span = <<>>
    /\ run_action = <<>>
    /\ token_res = <<"NotRun">>
    /\ ret = NoReturn
    /\ tokens = <<>>

----------------------------------------------------------------------------
(***************************************************************************)
(* The grammars the table construction is checked on: start symbol P, and  *)
(* for each nonterminal an ordered list of distinct bodies.                *)
(***************************************************************************)
\* The most productions of one nonterminal.
MaxProds == 2

PBodies == {<<"S">>, <<"a">>, <<"P", "b">>}

SBodies == {<<"A">>, <<"a">>, <<"A", "a">>}

ABodies == {<<"a">>, <<"S">>, <<>>}

ProdLists(bodies) ==
    {l \in UNION {[1..n -> bodies] : n \in 1..MaxProds} :
        \A i, j \in DOMAIN l : i # j => l[i] # l[j]}

Grammars ==
    {[start |-> "P", rules |-> [P |-> ps, S |-> ss, A |-> as]] :
        ps \in ProdLists(PBodies), ss \in ProdLists(SBodies), as \in ProdLists(ABodies)}

\* S -> S S | a with S itself as the start symbol.
GrammarSS == [start |-> "S", rules |-> [S |-> << <<"S", "S">>, <<"a">> >>]]

\* The same productions under a start production P -> S.
GrammarSSAugmented ==
    [start |-> "P",
     rules |-> [P |-> << <<"S">> >>, S |-> << <<"S", "S">>, <<"a">> >>]]

\* E -> S; S -> L = R | R; L -> * R | id; R -> L (the grammar of
\* test_lr1_closure).
GrammarLR ==
    [start |-> "E",
     rules |-> [E |-> << <<"S">> >>,
                S |-> << <<"L", "=", "R">>, <<"R">> >>,
                L |-> << <<"*", "R">>, <<"id">> >>,
                R |-> << <<"L">> >>]]

ExampleGrammars == {GrammarSS, GrammarSSAugmented, GrammarLR}

TableGrammars == Grammars \cup ExampleGrammars

\* The symbols and actions of direct calls of set_action.
DirectSymbols == {<<"a">>, <<>>}

DirectActions ==
    {Shift(1), Shift(2), Reduce("A", <<"a">>), Reduce("S", <<"A">>), Accept}

----------------------------------------------------------------------------
(***************************************************************************)
(* slr1_table as a state machine, one set_action or GOTO entry a step, and *)
(* direct calls of set_action on a state of their own.                     *)
(***************************************************************************)
NoGrammar == <<>>

NoLRResult == [tag |-> "None"]

LRInit ==
    /\ grammar = NoGrammar
    /\ lr0_automaton = <<>>
    /\ follow_sets = <<>>
    /\ lr_states = <<>>
    /\ lr1_state = NewLR1State
    /\ lr_i = 0
    /\ lr_work = <<>>
    /\ lr_pc = "new"
    /\ lr_result = NoLRResult

\* The call: the LR(0) automaton, the FOLLOW sets and the empty `states`.
SlrCall ==
    /\ lr_pc = "new"
    /\ \E g \in TableGrammars :
          /\ grammar' = g
          /\ lr0_automaton' = LR0Automaton(g)
          /\ follow_sets' = FollowSets(g)
    /\ lr_states' = <<>>
    /\ lr_i' = 0
    /\ lr_pc' = "loop"
    /\ UNCHANGED <<lr1_state, lr_work, lr_result>>
    /\ UNCHANGED <<parserVars, lexVars, itemVars>>

\* `for lr0_state in lr0_automaton.states`: a fresh LR(1) state.
SlrBeginState ==
    /\ lr_pc = "loop"
    /\ lr_i < Len(lr0_automaton.states)
    /\ lr1_state' = NewLR1State
    /\ lr_work' = StateOps(grammar, follow_sets, lr0_automaton.states[lr_i + 1])
    /\ lr_pc' = "state"
    /\ UNCHANGED <<grammar, lr0_automaton, follow_sets, lr_states, lr_i, lr_result>>
    /\ UNCHANGED <<parserVars, lexVars, itemVars>>

\* `lr1_state.goto.insert(n, dest)`
SlrGoto ==
    /\ lr_pc = "state"
    /\ lr_work # <<>>
    /\ Head(lr_work).op = "goto"
    /\ lr1_state' = [lr1_state EXCEPT !.goto =
                        MapInsert(@, Head(lr_work).sy[1], Head(lr_work).action.dest)]
    /\ lr_work' = Tail(lr_work)
    /\ UNCHANGED <<grammar, lr0_automaton, follow_sets, lr_states, lr_i, lr_pc,
                   lr_result>>
    /\ UNCHANGED <<parserVars, lexVars, itemVars>>

\* `lr1_state.set_action(sy, action)?` of the step at hand: the state as
\* changed, the early return of the conflict, or the panic.
SetActionStep ==
    /\ LET r == SetAction(lr1_state, Head(lr_work).sy, Head(lr_work).action)
       IN IF r.tag = "Ok"
          THEN /\ lr1_state' = r.state
               /\ lr_work' = Tail(lr_work)
               /\ UNCHANGED <<lr_pc, lr_result>>
          ELSE /\ lr_pc' = IF r.tag = "Err" THEN "err" ELSE "panic"
               /\ lr_result' = r
               /\ UNCHANGED <<lr1_state, lr_work>>
    /\ UNCHANGED <<grammar, lr0_automaton, follow_sets, lr_states, lr_i>>
    /\ UNCHANGED <<parserVars, lexVars, itemVars>>

NextStepIs(op, kind) ==
    /\ lr_pc = "state"
    /\ lr_work # <<>>
    /\ Head(lr_work).op = op
    /\ Head(lr_work).action.kind = kind

\* `lr1_state.set_action(Some(t), LR1Action::Shift(dest))?`
SlrShift ==
    /\ NextStepIs("set_action", "Shift")
    /\ SetActionStep

\* `lr1_state.set_action(.., LR1Action::Reduce(item.lhs, item.rhs))?`
SlrReduce ==
    /\ NextStepIs("set_action", "Reduce")
    /\ SetActionStep

\* `lr1_state.set_action(None, LR1Action::Accept)?`
SlrAccept ==
    /\ NextStepIs("set_action", "Accept")
    /\ SetActionStep

\* `states.push(lr1_state)`
SlrPushState ==
    /\ lr_pc = "state"
    /\ lr_work = <<>>
    /\ lr_states' = Append(lr_states, lr1_state)
    /\ lr_i' = lr_i + 1
    /\ lr_pc' = "loop"
    /\ UNCHANGED <<grammar, lr0_automaton, follow_sets, lr1_state, lr_work, lr_result>>
    /\ UNCHANGED <<parserVars, lexVars, itemVars>>

\* `Ok(LR1Table { states, initial: lr0_automaton.start })`
SlrReturnOk ==
    /\ lr_pc = "loop"
    /\ lr_i = Len(lr0_automaton.states)
    /\ lr_result' = [tag |-> "Ok",
                     table |-> [states |-> lr_states, initial |-> lr0_automaton.start]]
    /\ lr_pc' = "ok"
    /\ UNCHANGED <<grammar, lr0_automaton, follow_sets, lr_states, lr1_state, lr_i,
                   lr_work>>
    /\ UNCHANGED <<parserVars, lexVars, itemVars>>

\* A direct call of set_action on a state built by direct calls only.
DirectSetAction ==
    /\ lr_pc \in {"new", "direct"}
    /\ \E sy \in DirectSymbols, action \in DirectActions :
          LET r == SetAction(lr1_state, sy, action)
          IN IF r.tag = "Ok"
             THEN /\ lr1_state' = r.state
                  /\ lr_pc' = "direct"
                  /\ lr_result' = [tag |-> "Ok"]
             ELSE /\ lr_pc' = IF r.tag = "Err" THEN "direct_err" ELSE "panic"
                  /\ lr_result' = r
                  /\ UNCHANGED lr1_state
    /\ UNCHANGED <<grammar, lr0_automaton, follow_sets, lr_states, lr_i, lr_work>>
    /\ UNCHANGED <<parserVars, lexVars, itemVars>>

LRNext ==
    \/ SlrCall
    \/ SlrBeginState
    \/ SlrGoto
    \/ SlrShift
    \/ SlrReduce
    \/ SlrAccept
    \/ SlrPushState
    \/ SlrReturnOk
    \/ DirectSetAction

\* The table construction while another subsystem runs.
LRIdle ==
    /\ grammar = NoGrammar
    /\ lr0_automaton = <<>>
    /\ follow_sets = <<>>
    /\ lr_states = <<>>
    /\ lr1_state = NewLR1State
    /\ lr_i = 0
    /\ lr_work = <<>>
    /\ lr_pc = "idle"
    /\ lr_result = NoLRResult

\* The parser while another subsystem runs.
ParserIdle ==
    /\ expr = <<>>
    /\ stack = <<>>
    /\ op_stack = <<>>
    /\ paren_count_stack = <<>>
    /\ escaped = FALSE
    /\ insert_concat = FALSE
    /\ in_char_class = FALSE
    /\ char_class_buf = [class |-> CharClassNew, negate |-> FALSE]
    /\ char_range_buf = EmptyRangeBuf
    /\ ppc = "idle"
    /\ presult = NoResult

----------------------------------------------------------------------------
(***************************************************************************)
(* LR(0) item sets as lalr/src/lalr.rs computes them.  A call either       *)
(* returns, leaving an item set, or recurses without end: item_closure     *)
(* calls itself on `added` as long as `added` is not empty, so a call      *)
(* whose argument is the argument of a call already on the stack never     *)
(* returns and the stack overflows.                                        *)
(***************************************************************************)
ClosureOk(set) == [tag |-> "Ok", set |-> set]

StackOverflow == [tag |-> "StackOverflow", set |-> {}]

\* `added` of item_closure: for every item of the set with a nonterminal B
\* after the dot, the items [B -> .gamma] other than the item itself.
Added(g, set) ==
    UNION {ProdItems(g, NextSymbol(it)[1]) \ {it} :
             it \in {x \in set : /\ NextSymbol(x) # <<>>
                                 /\ IsNonterminal(g, NextSymbol(x)[1])}}

\* C14 mutant: the items the recursive call closed are not appended.
AppendAdded_Dropped(set, r) == IF r.tag = "Ok" THEN ClosureOk(set) ELSE r

\* `set.append(&mut added)` once the recursive call has returned.
AppendAdded(set, r) == IF r.tag = "Ok" THEN ClosureOk(set \cup r.set) ELSE r

\* Grammar::item_closure with `added` computed; `seen` holds the arguments of
\* the calls on the stack.
RECURSIVE ItemClosureFrom(_, _, _, _)
ItemClosureFrom(g, set, added, seen) ==
    IF added = {} THEN ClosureOk(set)
    ELSE IF added \in seen THEN StackOverflow
    ELSE AppendAdded(set, ItemClosureFrom(g, added, Added(g, added),
                                          seen \cup {added}))

\* Grammar::item_closure
ItemClosure(g, set) == ItemClosureFrom(g, set, Added(g, set), {set})

\* Item { lhs: item.lhs, rhs: item.rhs, pos: item.pos + 1 }
Advance(it) == Item(it.lhs, it.rhs, it.pos + 1)

\* C15 mutant: every item with a symbol after the dot is advanced.
GotoKernel_AnySymbol(set, x) ==
    {Advance(it) : it \in {k \in set : NextSymbol(k) # <<>>}}

\* The items close_goto closes: one `new_set` for each item with x after the
\* dot.
GotoKernel(set, x) == {Advance(it) : it \in {k \in set : NextSymbol(k) = <<x>>}}

\* `self.item_closure(&mut new_set)` of every such item.
CloseGotoParts(g, set, x) == {ItemClosure(g, {k}) : k \in GotoKernel(set, x)}

\* `closure.append(&mut new_set)` over the loop.
AppendAll(parts) ==
    IF \E p \in parts : p.tag # "Ok" THEN StackOverflow
    ELSE ClosureOk(UNION {p.set : p \in parts})

\* Grammar::close_goto
CloseGoto(g, set, x) == AppendAll(CloseGotoParts(g, set, x))

RECURSIVE FlatBodies(_)
FlatBodies(items) ==
    IF items = <<>> THEN <<>> ELSE Head(items).rhs \o FlatBodies(Tail(items))

\* Itertools::dedup: consecutive equal elements become one.
RECURSIVE Dedup(_)
Dedup(s) ==
    IF Len(s) <= 1 THEN s
    ELSE IF s[1] = s[2] THEN Dedup(Tail(s))
    ELSE <<s[1]>> \o Dedup(Tail(s))

\* `state.items.iter().flat_map(|item| item.rhs.body).dedup()`
SymbolsOf(g, items) == Dedup(FlatBodies(ItemsInOrder(g, items)))

\* The goto closures of one popped state, in the order of its symbols.
RECURSIVE NewStates(_, _, _)
NewStates(g, items, symbols) ==
    IF symbols = <<>> THEN <<>>
    ELSE <<CloseGoto(g, items, Head(symbols))>> \o NewStates(g, items, Tail(symbols))

\* (initial_state.clone(), BTreeMap::new())
LR0Entry(items) == [items |-> items, transitions |-> <<>>]

----------------------------------------------------------------------------
(***************************************************************************)
(* LR(1) items and Grammar::lr1_closure (lalr/src/lr1.rs).                 *)
(***************************************************************************)
LR1Item(lhs, rhs, pos, lookahead) ==
    [lhs |-> lhs, rhs |-> rhs, pos |-> pos, lookahead |-> lookahead]

\* `grammar.first_sets()`: per nonterminal, (FIRST set, nullable).
FirstSetsOf(g) ==
    [n \in DOMAIN g.rules |->
        [first |-> FirstSets(g)[n], nullable |-> n \in Nullable(g)]]

\* The loop over beta: `first_set` and `nullable` after it.
RECURSIVE FirstLoop(_, _, _, _, _)
FirstLoop(g, fs, beta, first_set, nullable) ==
    IF beta = <<>> \/ ~nullable
    THEN [first_set |-> first_set, nullable |-> nullable]
    ELSE IF ~IsNonterminal(g, Head(beta))
         THEN FirstLoop(g, fs, Tail(beta), first_set \cup {Head(beta)}, FALSE)
         ELSE FirstLoop(g, fs, Tail(beta), first_set \cup fs[Head(beta)].first,
                        fs[Head(beta)].nullable)

\* C13 mutant: `a` is added whether or not all of beta was nullable.
WithLookahead_Always(r, a) == {<<t>> : t \in r.first_set} \cup {a}

\* The set as a set of Some(t), with `a` added when all of beta was nullable.
WithLookahead(r, a) ==
    {<<t>> : t \in r.first_set} \cup (IF r.nullable THEN {a} ELSE {})

\* `first_beta_a`
FirstBetaA(g, fs, item) ==
    WithLookahead(FirstLoop(g, fs, SubSeq(item.rhs, item.pos + 2, Len(item.rhs)),
                            {}, TRUE),
                  item.lookahead)

\* C35 mutant: the items are added with the dot after the first symbol of a
\* non-empty body.
LR1AddedOf_DotAdvanced(g, fs, item) ==
    IF NextSymbol(item) # <<>> /\ IsNonterminal(g, NextSymbol(item)[1])
    THEN {LR1Item(NextSymbol(item)[1], g.rules[NextSymbol(item)[1]][k],
                  IF g.rules[NextSymbol(item)[1]][k] = <<>> THEN 0 ELSE 1, bt) :
            k \in DOMAIN g.rules[NextSymbol(item)[1]],
            bt \in FirstBetaA(g, fs, item)}
    ELSE {}

\* What one item of the set adds to `added`.
LR1AddedOf(g, fs, item) ==
    IF NextSymbol(item) # <<>> /\ IsNonterminal(g, NextSymbol(item)[1])
    THEN {LR1Item(NextSymbol(item)[1], g.rules[NextSymbol(item)[1]][k], 0, bt) :
            k \in DOMAIN g.rules[NextSymbol(item)[1]],
            bt \in FirstBetaA(g, fs, item)}
    ELSE {}

\* `added` after the loop over the set.
LR1Added(g, fs, set) == UNION {LR1AddedOf(g, fs, it) : it \in set}

\* lr1_closure as a function: the set after the last pass of `while changed`.
RECURSIVE LR1Closure(_, _, _)
LR1Closure(g, fs, set) ==
    IF LR1Added(g, fs, set) \subseteq set THEN set
    ELSE LR1Closure(g, fs, set \cup LR1Added(g, fs, set))

\* C34 mutant: every item with a symbol after the dot is advanced, whatever
\* the symbol.
LR1Goto_AnySymbol(g, fs, set, x) ==
    LR1Closure(g, fs,
               {LR1Item(it.lhs, it.rhs, it.pos + 1, it.lookahead) :
                  it \in {i \in set : NextSymbol(i) # <<>>}})

\* lr1_goto: `new_set` holds the items of the set with x after the dot,
\* advanced by one; its closure is returned.
LR1Goto(g, fs, set, x) ==
    LR1Closure(g, fs,
               {LR1Item(it.lhs, it.rhs, it.pos + 1, it.lookahead) :
                  it \in {i \in set : NextSymbol(i) = <<x>>}})

----------------------------------------------------------------------------
(***************************************************************************)
(* The grammars and item sets the item-set methods are checked on.         *)
(***************************************************************************)
\* The expression grammar of the tests of lalr.rs (its start symbol S is
\* written P here): P -> E; E -> E + T | T; T -> T * F | F; F -> ( E ) | id.
GrammarExpr ==
    [start |-> "P",
     rules |-> [P |-> << <<"E">> >>,
                E |-> << <<"E", "+", "T">>, <<"T">> >>,
                T |-> << <<"T", "*", "F">>, <<"F">> >>,
                F |-> << <<"(", "E", ")">>, <<"id">> >>]]

\* A grammar with a nullable nonterminal behind another nonterminal.
GrammarNullableTail ==
    [start |-> "P",
     rules |-> [P |-> << <<"S", "A">> >>,
                S |-> << <<"a">>, <<"A", "A">> >>,
                A |-> << <<>>, <<"b">> >>]]

\* A nonterminal with two left-recursive productions.
GrammarTwoLeftRecursions ==
    [start |-> "P",
     rules |-> [P |-> << <<"A">> >>,
                A |-> << <<"A", "a">>, <<"A", "b">> >>]]

\* Two mutually recursive nonterminals.
GrammarMutualRecursion ==
    [start |-> "P",
     rules |-> [P |-> << <<"S">> >>,
                S |-> << <<"A">> >>,
                A |-> << <<"S">> >>]]

ItemGrammars ==
    {g \in Grammars : Len(g.rules.P) = 1 /\ Len(g.rules.S) = 1}
       \cup ExampleGrammars
       \cup {GrammarExpr, GrammarNullableTail, GrammarTwoLeftRecursions,
             GrammarMutualRecursion}

\* The grammars lr1_closure is checked on.
LR1Grammars ==
    {g \in ItemGrammars : \A n \in DOMAIN g.rules : Len(g.rules[n]) = 1}
       \cup {GrammarLR, GrammarNullableTail}

\* The most items of an item set passed to a call.
MaxItems == 1

ProdIndex(g) == UNION {{<<n, k>> : k \in DOMAIN g.rules[n]} : n \in DOMAIN g.rules}

\* Every item of the grammar.
ItemsOf(g) ==
    UNION {{Item(pk[1], g.rules[pk[1]][pk[2]], pos) :
              pos \in 0..Len(g.rules[pk[1]][pk[2]])} : pk \in ProdIndex(g)}

SmallSets(S) == {SeqRange(s) : s \in UNION {[1..n -> S] : n \in 0..MaxItems}}

\* The item sets passed to item_closure and close_goto: the small ones, and
\* the sets the states of an automaton hold.
ItemSets(g) == SmallSets(ItemsOf(g)) \cup {Closure(g, {x}) : x \in ItemsOf(g)}

GrammarSymbols(g) ==
    (DOMAIN g.rules)
       \cup UNION {SeqRange(g.rules[pk[1]][pk[2]]) : pk \in ProdIndex(g)}

\* Option<&T>: None is the endmarker.
Lookaheads(g) == {<<>>} \cup {<<t>> : t \in GrammarSymbols(g) \ DOMAIN g.rules}

LR1ItemsOf(g) ==
    {LR1Item(it.lhs, it.rhs, it.pos, la) : it \in ItemsOf(g), la \in Lookaheads(g)}

LR1ItemSets(g) == SmallSets(LR1ItemsOf(g))

\* The item sets passed to lr1_goto: the small ones, and the sets the states
\* of an LR(1) automaton hold.
LR1GotoSets(g) ==
    LR1ItemSets(g)
       \cup {LR1Closure(g, FirstSetsOf(g), {x}) : x \in LR1ItemsOf(g)}

----------------------------------------------------------------------------
(***************************************************************************)
(* The item-set methods as a state machine: item_closure and close_goto    *)
(* one call a step, lr1_closure one pass of its `while` a step, lr0_set    *)
(* one state popped from the queue a step.                                 *)
(***************************************************************************)
NoItemResult == [tag |-> "None", set |-> {}]

ItemInit ==
    /\ item_grammar = NoGrammar
    /\ item_set = {}
    /\ goto_x = ""
    /\ changed = FALSE
    /\ lr0_states = <<>>
    /\ states_queue = <<>>
    /\ popped_state = {}
    /\ item_pc = "new"
    /\ item_result = NoItemResult

\* grammar.item_closure(&mut set)
ItemClosureCall ==
    /\ item_pc = "new"
    /\ \E g \in ItemGrammars :
          \E set \in ItemSets(g) :
             /\ item_grammar' = g
             /\ item_set' = set
             /\ item_result' = ItemClosure(g, set)
    /\ item_pc' = IF item_result'.tag = "Ok" THEN "closed" ELSE "closure_overflow"
    /\ UNCHANGED <<goto_x, changed, lr0_states, states_queue, popped_state>>
    /\ UNCHANGED <<parserVars, lexVars, lrVars>>

\* grammar.close_goto(&set, &x)
CloseGotoCall ==
    /\ item_pc = "new"
    /\ \E g \in ItemGrammars :
          \E set \in ItemSets(g), x \in GrammarSymbols(g) :
             /\ item_grammar' = g
             /\ item_set' = set
             /\ goto_x' = x
             /\ item_result' = CloseGoto(g, set, x)
    /\ item_pc' = IF item_result'.tag = "Ok" THEN "goto_closed" ELSE "goto_overflow"
    /\ UNCHANGED <<changed, lr0_states, states_queue, popped_state>>
    /\ UNCHANGED <<parserVars, lexVars, lrVars>>

\* grammar.lr1_closure(&mut set, &grammar.first_sets()): `changed = true`.
LR1ClosureCall ==
    /\ item_pc = "new"
    /\ \E g \in LR1Grammars :
          \E set \in LR1ItemSets(g) :
             /\ item_grammar' = g
             /\ item_set' = set
             /\ item_result' = [tag |-> "Running", set |-> set]
    /\ changed' = TRUE
    /\ item_pc' = "lr1_while"
    /\ UNCHANGED <<goto_x, lr0_states, states_queue, popped_state>>
    /\ UNCHANGED <<parserVars, lexVars, lrVars>>

\* One pass of `while changed`: `added` is computed from the set and every
\* item of it inserted; `changed` is set when an insert was new.
LR1ClosurePass ==
    /\ item_pc = "lr1_while"
    /\ changed
    /\ item_result' =
          [tag |-> "Running",
           set |-> item_result.set
                     \cup LR1Added(item_grammar, FirstSetsOf(item_grammar),
                                   item_result.set)]
    /\ changed' = (item_result'.set # item_result.set)
    /\ UNCHANGED <<item_grammar, item_set, goto_x, lr0_states, states_queue,
                   popped_state, item_pc>>
    /\ UNCHANGED <<parserVars, lexVars, lrVars>>

\* The loop of lr1_closure ends.
LR1ClosureReturn ==
    /\ item_pc = "lr1_while"
    /\ ~changed
    /\ item_result' = ClosureOk(item_result.set)
    /\ item_pc' = "lr1_closed"
    /\ UNCHANGED <<item_grammar, item_set, goto_x, changed, lr0_states,
                   states_queue, popped_state>>
    /\ UNCHANGED <<parserVars, lexVars, lrVars>>

\* grammar.lr1_goto(&set, &x, &grammar.first_sets())
LR1GotoCall ==
    /\ item_pc = "new"
    /\ \E g \in LR1Grammars :
          \E set \in LR1GotoSets(g) :
             \E x \in GrammarSymbols(g) :
                /\ item_grammar' = g
                /\ item_set' = set
                /\ goto_x' = x
                /\ item_result' = ClosureOk(LR1Goto(g, FirstSetsOf(g), set, x))
    /\ item_pc' = "lr1_goto"
    /\ UNCHANGED <<changed, lr0_states, states_queue, popped_state>>
    /\ UNCHANGED <<parserVars, lexVars, lrVars>>

\* The non-empty item sets one pass of the loop of lr0_set pushes for a state.
GotoTargets(g, items) ==
    {CloseGoto(g, items, X).set : X \in SeqRange(SymbolsOf(g, items))} \ {{}}

\* The item sets pushed after one or more passes.
RECURSIVE GotoReach(_, _, _)
GotoReach(g, R, next) ==
    IF next \subseteq R THEN R
    ELSE GotoReach(g, R \cup next, UNION {GotoTargets(g, I) : I \in next})

\* The state is pushed again, some passes after the pass that pops it.
OnGotoCycle(g, items) == items \in GotoReach(g, {}, GotoTargets(g, items))

Overflows(news) == \E k \in DOMAIN news : news[k].tag # "Ok"

\* grammar.lr0_set(): the closure of the initial item, `states` and the queue.
Lr0SetCall ==
    /\ item_pc = "new"
    /\ \E g \in ItemGrammars :
          /\ item_grammar' = g
          /\ LET r == ItemClosure(g, {InitialItem(g)})
             IN IF r.tag = "Ok"
                THEN /\ lr0_states' = <<LR0Entry(r.set)>>
                     /\ states_queue' = <<r.set>>
                     /\ item_pc' = "lr0_while"
                     /\ item_result' = NoItemResult
                ELSE /\ lr0_states' = <<>>
                     /\ states_queue' = <<>>
                     /\ item_pc' = "lr0_overflow"
                     /\ item_result' = r
    /\ UNCHANGED <<item_set, goto_x, changed, popped_state>>
    /\ UNCHANGED <<parserVars, lexVars, lrVars>>

\* One pass of `while let Some(state) = states_queue.pop_front()`: the goto
\* closure of every symbol is pushed to the queue, whether or not `states`
\* holds it, and `states` is left as it is.
Lr0SetPop ==
    /\ item_pc = "lr0_while"
    /\ states_queue # <<>>
    /\ LET news == NewStates(item_grammar, Head(states_queue),
                             SymbolsOf(item_grammar, Head(states_queue)))
       IN IF Overflows(news)
          THEN /\ states_queue' = Tail(states_queue)
               /\ item_pc' = "lr0_overflow"
               /\ item_result' = StackOverflow
          ELSE /\ ~OnGotoCycle(item_grammar, Head(states_queue))
               /\ states_queue' =
                     Tail(states_queue) \o [k \in DOMAIN news |-> news[k].set]
               /\ UNCHANGED <<item_pc, item_result>>
    /\ popped_state' = Head(states_queue)
    /\ UNCHANGED <<item_grammar, item_set, goto_x, changed, lr0_states>>
    /\ UNCHANGED <<parserVars, lexVars, lrVars>>

\* The pass pops a state that its own passes push again: from here on the
\* queue is never empty and the loop does not end.  The run is followed no
\* further.
Lr0SetDiverge ==
    /\ item_pc = "lr0_while"
    /\ states_queue # <<>>
    /\ ~Overflows(NewStates(item_grammar, Head(states_queue),
                            SymbolsOf(item_grammar, Head(states_queue))))
    /\ OnGotoCycle(item_grammar, Head(states_queue))
    /\ popped_state' = Head(states_queue)
    /\ item_pc' = "lr0_diverges"
    /\ UNCHANGED <<item_grammar, item_set, goto_x, changed, lr0_states,
                   states_queue, item_result>>
    /\ UNCHANGED <<parserVars, lexVars, lrVars>>

\* The queue is empty: `LR0Automaton { states }`.
Lr0SetReturn ==
    /\ item_pc = "lr0_while"
    /\ states_queue = <<>>
    /\ item_result' = [tag |-> "Ok", states |-> lr0_states]
    /\ item_pc' = "lr0_returned"
    /\ UNCHANGED <<item_grammar, item_set, goto_x, changed, lr0_states,
                   states_queue, popped_state>>
    /\ UNCHANGED <<parserVars, lexVars, lrVars>>

ItemNext ==
    \/ ItemClosureCall
    \/ CloseGotoCall
    \/ LR1ClosureCall
    \/ LR1ClosurePass
    \/ LR1ClosureReturn
    \/ LR1GotoCall
    \/ Lr0SetCall
    \/ Lr0SetPop
    \/ Lr0SetDiverge
    \/ Lr0SetReturn

\* The item-set methods while another subsystem runs.
ItemIdle ==
    /\ item_grammar = NoGrammar
    /\ item_set = {}
    /\ goto_x = ""
    /\ changed = FALSE
    /\ lr0_states = <<>>
    /\ states_queue = <<>>
    /\ popped_state = {}
    /\ item_pc = "idle"
    /\ item_result = NoItemResult

Init == ParserInit /\ LexIdle /\ LRIdle /\ ItemIdle

Next == ParserNext

Spec == Init /\ [][Next]_vars

LexSpecInit == ParserIdle /\ LexInit /\ LRIdle /\ ItemIdle

LexSpec == LexSpecInit /\ [][LexNext]_vars

LRSpecInit == ParserIdle /\ LexIdle /\ LRInit /\ ItemIdle

LRSpec == LRSpecInit /\ [][LRNext]_vars

ItemSpecInit == ParserIdle /\ LexIdle /\ LRIdle /\ ItemInit

ItemSpec == ItemSpecInit /\ [][ItemNext]_vars

\* The calls of lr1_closure alone, each run to its end: the method runs
\* sequentially, so a pass of the loop that can be taken is taken, and the
\* method returns once `changed` is false.
LR1ClosureNext ==
    \/ LR1ClosureCall
    \/ LR1ClosurePass
    \/ LR1ClosureReturn

LR1ClosureSpec ==
    /\ ItemSpecInit
    /\ [][LR1ClosureNext]_vars
    /\ WF_vars(LR1ClosurePass \/ LR1ClosureReturn)

----------------------------------------------------------------------------
(***************************************************************************)
(* Grouping of a parenthesis-free expression.                              *)
(***************************************************************************)
\* The characters of a parenthesis-free expression without classes or escapes.
PlainChars == {"a", "b", "|", "*", "+", "?"}

LiteralChars == {"a", "b"}

\* The alternatives the text of a parenthesis-free expression asks for: the
\* atoms standing between neighbouring `|`s, in order.
RECURSIVE AltsOfInput(_)
AltsOfInput(e) ==
    IF e = <<>> THEN << <<>> >>
    ELSE LET before == AltsOfInput(Front(e))
             c      == Last(e)
             n      == Len(before)
         IN IF c = "|" THEN Append(before, <<>>)
            ELSE IF c \in LiteralChars
                 THEN [before EXCEPT ![n] = Append(@, CharClassNewSingle(c))]
            ELSE before

\* The alternatives a fragment is grouped into: its postfix term is evaluated
\* on a stack of lists of alternatives.  A postfix operator or a concatenation
\* applied to an operand that holds a union sets `bad`.
RECURSIVE AltsEval(_, _)
AltsEval(frag, acc) ==
    IF frag = <<>> THEN acc
    ELSE LET tok == Head(frag)
             st  == acc.st
             n   == Len(st)
             nxt ==
               CASE tok[1] = "Atom" -> [acc EXCEPT !.st = Append(st, << <<tok[2]>> >>)]
                 [] tok[1] = "Epsilon" -> [acc EXCEPT !.st = Append(st, << <<>> >>)]
                 [] tok[1] \in PostfixOps ->
                      IF n >= 1 /\ Len(st[n]) = 1 THEN acc
                      ELSE [acc EXCEPT !.bad = TRUE]
                 [] tok[1] = "Concatenation" ->
                      IF n >= 2 /\ Len(st[n]) = 1 /\ Len(st[n - 1]) = 1
                      THEN [acc EXCEPT !.st =
                              Append(SubSeq(st, 1, n - 2), <<st[n - 1][1] \o st[n][1]>>)]
                      ELSE [acc EXCEPT !.bad = TRUE]
                 [] tok[1] = "Union" ->
                      IF n >= 2
                      THEN [acc EXCEPT !.st =
                              Append(SubSeq(st, 1, n - 2), st[n - 1] \o st[n])]
                      ELSE [acc EXCEPT !.bad = TRUE]
         IN IF nxt.bad THEN nxt ELSE AltsEval(Tail(frag), nxt)

GroupedAsAlternatives(frag, e) ==
    LET r == AltsEval(frag, [st |-> <<>>, bad |-> FALSE])
    IN ~r.bad /\ Len(r.st) = 1 /\ r.st[1] = AltsOfInput(e)

ParsedPlain ==
    /\ ppc = "ok"
    /\ presult[1] = "Some"
    /\ SeqRange(expr) \subseteq PlainChars

\* C1: every parenthesis-free expression that parses is reduced to the union
\* of its alternatives, each alternative the whole concatenation of the atoms
\* (with their postfix operators) between neighbouring `|`s.
C1_PrecedenceGrouping ==
    ParsedPlain => GroupedAsAlternatives(presult[2], expr)

\* C1: an expression with a concatenation, a postfix operator and an
\* alternation has been parsed.
C1_Witness ==
    /\ ParsedPlain
    /\ {"|", "*"} \subseteq SeqRange(expr)
    /\ \E i \in 1..(Len(expr) - 1) : expr[i] \in LiteralChars /\ expr[i + 1] \in LiteralChars

----------------------------------------------------------------------------
(***************************************************************************)
(* The scanner: what is consumed on a skip and on no match.                *)
(***************************************************************************)
SkipDispatched == lpc = "dispatch" /\ token_res[1] = "None"

NoMatchFound == lpc = "find" /\ DFAFind(lexer.dfa, adv_input)[1] = "None"

\* C2 (as claimed): when the action of the matched rule returns None, the
\* scan goes on at the first character after the whole match.
C2_SkipConsumesMatch ==
    [][(SkipDispatched /\ lpc' = "find")
          => adv_input' = SubSeq(adv_input, m[2] + 1, Len(adv_input))]_vars

\* C2 (amended): when the action of the matched rule returns None, exactly the
\* first character of the input is dropped, whatever the length of the match:
\* `advance` restarts on the input without its first character, or returns
\* (Ok(None), "") when nothing is left after that character.
C2_SkipDropsOneChar ==
    [][SkipDispatched
          => IF Len(adv_input) > 1
             THEN /\ lpc' = "find"
                  /\ adv_input' = SubSeq(adv_input, 2, Len(adv_input))
                  /\ depth' = depth + 1
             ELSE /\ lpc' = "ret"
                  /\ ret' = [result |-> <<"None">>, remaining |-> <<>>]]_vars

\* C2: a match of two or more characters was skipped and `advance` restarted.
C2_Witness ==
    /\ lpc = "find"
    /\ depth >= 1
    /\ token_res[1] = "None"
    /\ m[1] = "Some"
    /\ m[2] >= 2

----------------------------------------------------------------------------
(***************************************************************************)
(* The rule of a DFA state, found from the rules themselves: rule k's NFA  *)
(* alone, and the block of combined-NFA states it was copied to.           *)
(***************************************************************************)
RuleNFA(k) == ToNFA(Parse(rules[k].regexp)[2])

RECURSIVE RuleOffset(_)
RuleOffset(k) ==
    IF k = 1 THEN NFANew.total_states
    ELSE RuleOffset(k - 1) + RuleNFA(k - 1).total_states

RuleFinals(k) == {f + RuleOffset(k) : f \in RuleNFA(k).final_states}

RulesIn(nfa_states) == {k \in DOMAIN rules : RuleFinals(k) \cap nfa_states # {}}

RECURSIVE NFARun(_, _, _)
NFARun(nfa, S, s) ==
    IF s = <<>> THEN S
    ELSE NFARun(nfa, EpsilonClosure(nfa, Move(nfa, S, Ord(Head(s)))), Tail(s))

NFAAccepts(nfa, s) ==
    NFARun(nfa, EpsilonClosure(nfa, {nfa.initial_state}), s) \cap nfa.final_states # {}

\* The rules whose regular expression matches the whole of s.
RulesMatching(s) == {k \in DOMAIN rules : NFAAccepts(RuleNFA(k), s)}

----------------------------------------------------------------------------
(***************************************************************************)
(* The longest prefix on which the DFA is in a final state.                *)
(***************************************************************************)
RECURSIVE RunDFA(_, _, _)
RunDFA(dfa, q, s) ==
    IF s = <<>> THEN q ELSE RunDFA(dfa, DFAStep(dfa, q, Head(s)), Tail(s))

FinalPrefixes(dfa, input) ==
    {n \in 0..Len(input) :
        RunDFA(dfa, dfa.initial_state, SubSeq(input, 1, n)) \in dfa.final_states}

MaxOf(S) == CHOOSE x \in S : \A y \in S : y <= x

----------------------------------------------------------------------------
(***************************************************************************)
(* Scenario S3.                                                            *)
(***************************************************************************)
S3Done == rules = S3Rules /\ src_input = S3Input /\ lpc = "done"

TokenOf(name, text) == [name |-> name, text |-> text]

----------------------------------------------------------------------------
(***************************************************************************)
(* The SLR(1) table: conflicts, content and the start symbol.              *)
(***************************************************************************)
SlrCalled == grammar # NoGrammar

\* C7 (as claimed): no call of set_action panics; a call that finds its cell
\* occupied returns an LRConflict, whatever the two actions are.
C7_ConflictsAreReturned == lr_pc # "panic"

\* C7: `slr1_table` has panicked in set_action, on an Accept or Reduce for an
\* endmarker cell that already holds an action.
C7_Witness ==
    /\ SlrCalled
    /\ lr_pc = "panic"
    /\ Head(lr_work).sy = <<>>
    /\ lr1_state.endmarker # <<>>

CompleteItems(l) == {it \in l.items : it.pos = Len(it.rhs)}

StateNumbers == 0..(Len(lr0_automaton.states) - 1)

\* The LR(1) state `st` holds what the claim says for the LR(0) state `l`.
StateMatches(st, l) ==
    /\ \A a \in SeqRange(TermOrder), j \in StateNumbers :
          (a \in DOMAIN st.actions /\ st.actions[a] = Shift(j))
             <=> (<<a, j>> \in SeqRange(l.transitions))
    /\ \A A \in DOMAIN grammar.rules, j \in StateNumbers :
          (A \in DOMAIN st.goto /\ st.goto[A] = j)
             <=> (<<A, j>> \in SeqRange(l.transitions))
    /\ \A it \in CompleteItems(l) :
          it.lhs # grammar.start =>
             /\ \A a \in follow_sets[it.lhs].set :
                   a \in DOMAIN st.actions /\ st.actions[a] = Reduce(it.lhs, it.rhs)
             /\ follow_sets[it.lhs].endmarker =>
                   st.endmarker = <<Reduce(it.lhs, it.rhs)>>
    /\ (st.endmarker = <<Accept>>)
          <=> (\E it \in CompleteItems(l) : it.lhs = grammar.start)

\* C8: a table returned as Ok has one state per LR(0) state, and in each state
\* Shift exactly on the terminal transitions, GOTO exactly on the nonterminal
\* transitions, Reduce on FOLLOW (and on the endmarker when it is in FOLLOW)
\* for every complete item of another nonterminal than the start symbol, and
\* Accept on the endmarker exactly when a complete item of the start symbol
\* is in the state.
C8_TableContent ==
    lr_pc = "ok" =>
       /\ Len(lr_result.table.states) = Len(lr0_automaton.states)
       /\ lr_result.table.initial = lr0_automaton.start
       /\ \A i \in DOMAIN lr_result.table.states :
             StateMatches(lr_result.table.states[i], lr0_automaton.states[i])

ActionsOf(st) ==
    {st.actions[a] : a \in DOMAIN st.actions}
       \cup {st.endmarker[k] : k \in DOMAIN st.endmarker}

TableActions == UNION {ActionsOf(lr_result.table.states[i]) :
                          i \in DOMAIN lr_result.table.states}

\* C8: a table was returned that holds a Shift, a Reduce on a terminal, a
\* Reduce on the endmarker, an Accept and a GOTO entry.
C8_Witness ==
    /\ lr_pc = "ok"
    /\ {"Shift", "Reduce", "Accept"} \subseteq {a.kind : a \in TableActions}
    /\ \E i \in DOMAIN lr_result.table.states :
          /\ lr_result.table.states[i].goto # <<>>
          /\ lr_result.table.states[i].endmarker # <<>>
          /\ lr_result.table.states[i].endmarker[1].kind = "Reduce"
    /\ \E i \in DOMAIN lr_result.table.states :
          \E a \in DOMAIN lr_result.table.states[i].actions :
             lr_result.table.states[i].actions[a].kind = "Reduce"

\* The steps of LR(0) state number i that find their cell taken by an earlier
\* step of the same state.
OpsOfState(i) == StateOps(grammar, follow_sets, lr0_automaton.states[i + 1])

Collides(ops, k) ==
    /\ ops[k].op = "set_action"
    /\ \E h \in 1..(k - 1) : ops[h].op = "set_action" /\ ops[h].sy = ops[k].sy

Collisions(i) == {k \in DOMAIN OpsOfState(i) : Collides(OpsOfState(i), k)}

CollidingStates == {i \in StateNumbers : Collisions(i) # {}}

\* C9 (as claimed): `slr1_table` ends either with Ok, and then no step found
\* its cell taken, or with Err at the first step, in construction order, that
\* found its cell taken, returning that conflict and no table.
C9_FirstCollisionOnly ==
    (SlrCalled /\ lr_pc \in {"ok", "err", "panic"}) =>
       IF CollidingStates = {}
       THEN lr_pc = "ok"
       ELSE /\ lr_pc = "err"
            /\ DOMAIN lr_result = {"tag", "conflict"}
            /\ lr_result.tag = "Err"
            /\ lr_i = MinOf(CollidingStates)
            /\ Len(OpsOfState(lr_i)) - Len(lr_work) + 1 = MinOf(Collisions(lr_i))
            /\ Len(lr_states) = lr_i

\* C9: `slr1_table` has returned the conflict of a state after the first.
C9_Witness == SlrCalled /\ lr_pc = "err" /\ lr_i >= 1

InitialItemSet == lr0_automaton.states[lr0_automaton.start + 1].items

StartItems(l) == {it \in CompleteItems(l) : it.lhs = grammar.start}

SlrDone == SlrCalled /\ lr_pc \in {"ok", "err", "panic"}

ConflictKinds == {"ShiftReduce", "ReduceReduce"}

C12_ShiftReduceOnEquals ==
    (SlrDone /\ grammar = GrammarLR) =>
       /\ lr_pc = "err"
       /\ DOMAIN lr_result = {"tag", "conflict"}
       /\ lr_result.tag = "Err"
       /\ lr_result.conflict.kind = "ShiftReduce"
       /\ lr_result.conflict.shift[1] = <<"=">>
       /\ lr_result.conflict.reduce = <<"R", <<"L">> >>

\* C12: `slr1_table` has returned for that grammar, in the state that holds
\* both [S -> L . = R] and [R -> L .].
C12_Witness ==
    /\ SlrDone
    /\ grammar = GrammarLR
    /\ {Item("S", <<"L", "=", "R">>, 1), Item("R", <<"L">>, 1)}
          \subseteq lr0_automaton.states[lr_i + 1].items

----------------------------------------------------------------------------
(***************************************************************************)
(* The item-set methods against the closures of sections 4.7 and 4.9.      *)
(***************************************************************************)
\* FIRST(beta a): FIRST of the sequence beta, and a when every symbol of beta
\* is nullable.
FirstOfBetaA(g, beta, a) ==
    {<<t>> : t \in FirstOfSeq(g, Nullable(g), FirstSets(g), beta)}
       \cup (IF \A i \in DOMAIN beta : beta[i] \in Nullable(g) THEN {a} ELSE {})

\* The items the closure rule asks for, for the items of a set.
LR1Required(g, set) ==
    UNION {{LR1Item(NextSymbol(it)[1], body, 0, b) :
              body \in Bodies(g, NextSymbol(it)[1]),
              b \in FirstOfBetaA(g, SubSeq(it.rhs, it.pos + 2, Len(it.rhs)),
                                 it.lookahead)} :
           it \in {x \in set : /\ NextSymbol(x) # <<>>
                               /\ IsNonterminal(g, NextSymbol(x)[1])}}

\* The least set that holds `set` and is closed under the rule.
RECURSIVE LeastLR1Closed(_, _)
LeastLR1Closed(g, set) ==
    IF LR1Required(g, set) \subseteq set THEN set
    ELSE LeastLR1Closed(g, set \cup LR1Required(g, set))

StartItemLR == {LR1Item("E", <<"S">>, 0, <<>>)}

\* C13: when lr1_closure returns, the set holds its input, is closed under
\* the rule [A -> alpha . B beta, a], B -> gamma, b in FIRST(beta a) gives
\* [B -> .gamma, b], and is the least such set; for {[E -> .S, $]} in the
\* grammar of the test it has exactly 8 items.
C13_LR1ClosureIsLeast ==
    item_pc = "lr1_closed" =>
       /\ item_set \subseteq item_result.set
       /\ LR1Required(item_grammar, item_result.set) \subseteq item_result.set
       /\ item_result.set = LeastLR1Closed(item_grammar, item_set)
       /\ (item_grammar = GrammarLR /\ item_set = StartItemLR) =>
             Cardinality(item_result.set) = 8

\* C13: lr1_closure has returned the 8 items of the closure of {[E -> .S, $]}
\* in the grammar of the test.
C13_Witness ==
    /\ item_pc = "lr1_closed"
    /\ item_grammar = GrammarLR
    /\ item_set = StartItemLR
    /\ Cardinality(item_result.set) = 8

\* C14: when item_closure returns, the set is the least set that holds the
\* original set and [B -> .gamma] for every item of it with B after the dot
\* and every production B -> gamma.
C14_ItemClosureIsLeast ==
    item_pc = "closed" =>
       /\ item_set \subseteq item_result.set
       /\ \A it \in item_result.set :
             (NextSymbol(it) # <<>> /\ IsNonterminal(item_grammar, NextSymbol(it)[1]))
                => ProdItems(item_grammar, NextSymbol(it)[1]) \subseteq item_result.set
       /\ item_result.set = Closure(item_grammar, item_set)

\* C14: item_closure has returned the 7 items of the closure of {[S -> .E]}
\* in the expression grammar.
C14_Witness ==
    /\ item_pc = "closed"
    /\ item_grammar = GrammarExpr
    /\ item_set = {Item("P", <<"E">>, 0)}
    /\ Cardinality(item_result.set) = 7

HasAfterDot(set, x) == {it \in set : NextSymbol(it) = <<x>>}

\* C15: when close_goto(I, X) returns, the result is the closure of the items
\* of I with X after the dot, each advanced by one position; it holds each of
\* them, and it is empty when no item of I has X after the dot.
C15_CloseGotoIsGoto ==
    item_pc = "goto_closed" =>
       /\ item_result.set =
             Closure(item_grammar,
                     {Item(it.lhs, it.rhs, it.pos + 1) : it \in HasAfterDot(item_set, goto_x)})
       /\ \A it \in HasAfterDot(item_set, goto_x) :
             Item(it.lhs, it.rhs, it.pos + 1) \in item_result.set
       /\ HasAfterDot(item_set, goto_x) = {} => item_result.set = {}

\* C15: close_goto has returned for a set with two items that have X after
\* the dot and others that have not, and the closure added items.
C15_Witness ==
    /\ item_pc = "goto_closed"
    /\ Cardinality(HasAfterDot(item_set, goto_x)) >= 2
    /\ HasAfterDot(item_set, goto_x) # item_set
    /\ Cardinality(item_result.set) > Cardinality(HasAfterDot(item_set, goto_x))

\* C16 (as claimed): lr0_set returns for every grammar: no call ends in an
\* unbounded recursion of item_closure, and none reaches a pass from which
\* the queue can no longer become empty.
C16_Lr0SetTerminates == item_pc \notin {"lr0_diverges", "lr0_overflow"}

\* C16: in the expression grammar the loop of lr0_set has popped a state that
\* its own passes push again, and among the states pushed is one that is its
\* own goto on `(`.
C16_Witness ==
    /\ item_pc = "lr0_diverges"
    /\ item_grammar = GrammarExpr
    /\ popped_state \in GotoReach(item_grammar, {}, GotoTargets(item_grammar, popped_state))
    /\ \E I \in GotoReach(item_grammar, {}, GotoTargets(item_grammar, popped_state)) :
          CloseGoto(item_grammar, I, "(") = ClosureOk(I)

\* The item sets of the LR(0) automaton: the non-empty sets reached from the
\* initial one by goto steps.
ReachableSets(g) == SeqRange(LR0Loop(g, <<Closure(g, {InitialItem(g)})>>, 1))

\* C17 (as claimed): the automaton lr0_set returns holds every non-empty item
\* set reachable from the initial state, each once, and each state's
\* transition map sends X to the index of the state equal to goto(state, X).
C17_AutomatonIsComplete ==
    item_pc = "lr0_returned" =>
       /\ {item_result.states[i].items : i \in DOMAIN item_result.states}
             = ReachableSets(item_grammar)
       /\ \A i, j \in DOMAIN item_result.states :
             item_result.states[i].items = item_result.states[j].items => i = j
       /\ \A i \in DOMAIN item_result.states :
             \A X \in GrammarSymbols(item_grammar) :
                Goto(item_grammar, item_result.states[i].items, X) # {} =>
                   /\ X \in DOMAIN item_result.states[i].transitions
                   /\ item_result.states[item_result.states[i].transitions[X] + 1].items
                         = Goto(item_grammar, item_result.states[i].items, X)

\* C17: lr0_set has returned a single state with an empty transition map for
\* a grammar whose initial state has a goto.
C17_Witness ==
    /\ item_pc = "lr0_returned"
    /\ Len(item_result.states) = 1
    /\ item_result.states[1].transitions = <<>>
    /\ Cardinality(ReachableSets(item_grammar)) >= 2

----------------------------------------------------------------------------
(***************************************************************************)
(* Parentheses and character classes in the expression parser.             *)
(***************************************************************************)
RECURSIVE CountOf(_, _)
CountOf(e, c) ==
    IF e = <<>> THEN 0
    ELSE (IF Head(e) = c THEN 1 ELSE 0) + CountOf(Tail(e), c)

\* The `(` of an operator expression that no `)` has closed.
OpenParens(e) == CountOf(e, "(") - CountOf(e, ")")

\* The last character read was a `)` of an operator expression (unescaped,
\* outside a class) with no unmatched `(` before it.
UnmatchedRightParenRead ==
    /\ expr # <<>>
    /\ SeqRange(expr) \subseteq OperatorChars
    /\ Last(expr) = ")"
    /\ OpenParens(Front(expr)) = 0

\* C18 (as claimed): an unescaped `)` read outside a class with no unmatched
\* `(` open makes `parse` fail with UnbalancedParentheses, whatever the
\* operator stack holds.
C18_UnmatchedRightParen ==
    UnmatchedRightParenRead =>
       /\ ppc = "err"
       /\ presult = <<"Err", "UnbalancedParentheses">>

\* C18: `parse` has failed with UnbalancedOperators on an unmatched `)` read
\* with an empty operator stack.
C18_Witness ==
    /\ UnmatchedRightParenRead
    /\ ppc = "err"
    /\ op_stack = <<>>
    /\ presult = <<"Err", "UnbalancedOperators">>

\* The step reads an unescaped `]` in class mode.
ClosesClass ==
    /\ ppc = "reading"
    /\ in_char_class
    /\ ~escaped
    /\ expr' = Append(expr, "]")

NothingAccumulated ==
    RangeBufIsEmpty(char_range_buf) /\ char_class_buf.class = {}

EmptyClassError == <<"Err", "EmptyCharacterClass">>

\* C19: closing a class with nothing accumulated makes `parse` fail with
\* EmptyCharacterClass and shifts no fragment; closing a class with a
\* character or range accumulated does not give this error.
C19_EmptyClass ==
    [][ClosesClass =>
          IF NothingAccumulated
          THEN /\ ppc' = "err"
               /\ presult' = EmptyClassError
               /\ stack' = stack
          ELSE presult' # EmptyClassError]_vars

\* C19: `parse` has failed with EmptyCharacterClass on `[^]` read after an
\* atom, the atom being the only fragment.
C19_Witness ==
    /\ ppc = "err"
    /\ presult = EmptyClassError
    /\ Len(expr) >= 4
    /\ SubSeq(expr, Len(expr) - 2, Len(expr)) = <<"[", "^", "]">>
    /\ Len(stack) = 1

EscapedInClass == {"\\", "]"}

OperatorsInClass == {"|", "*", "+", "?", "(", ")"}

\* The step reads, in class mode, the character c as an escape `\\` or `\]`
\* or as one of the unescaped characters | * + ? ( ).
ReadsClassLiteral(c) ==
    /\ ppc = "reading"
    /\ in_char_class
    /\ expr' = Append(expr, c)
    /\ \/ escaped /\ c \in EscapedInClass
       \/ ~escaped /\ c \in OperatorsInClass

\* The step hands c to the class being built and does nothing else: no
\* fragment is shifted, no operator pushed, the class stays open.
AddedToClass(c) ==
    /\ ppc' = "reading"
    /\ in_char_class'
    /\ ~escaped'
    /\ stack' = stack
    /\ op_stack' = op_stack
    /\ insert_concat' = insert_concat
    /\ char_range_buf' = AppendCharRangeBuf(PState, c).char_range_buf
    /\ char_class_buf' = AppendCharRangeBuf(PState, c).char_class_buf

\* C20 (as claimed): inside a class the escapes `\\` and `\]` and the
\* unescaped characters | * + ? ( ) are added to the class being built; they
\* neither close the class nor shift a fragment.
C20_ClassLiterals ==
    [][\A c \in EscapedInClass \cup OperatorsInClass :
          ReadsClassLiteral(c) => AddedToClass(c)]_vars

\* C20: an escaped backslash read in class mode has shifted a fragment and
\* left the class being built empty.
C20_Witness ==
    /\ ppc = "reading"
    /\ in_char_class
    /\ Len(expr) >= 3
    /\ SubSeq(expr, Len(expr) - 2, Len(expr)) = <<"[", "\\", "\\">>
    /\ Len(stack) = 1
    /\ NothingAccumulated

\* The index in e of the unescaped `[` that opened the class still open at
\* the end of e, or 0 when e ends outside a class: the text read with the
\* rules of escaping and class mode only.
RECURSIVE ClassOpenedFrom(_, _, _, _)
ClassOpenedFrom(e, i, esc, open) ==
    IF i > Len(e) THEN open
    ELSE IF esc THEN ClassOpenedFrom(e, i + 1, FALSE, open)
    ELSE IF e[i] = "\\" THEN ClassOpenedFrom(e, i + 1, TRUE, open)
    ELSE IF open = 0 /\ e[i] = "[" THEN ClassOpenedFrom(e, i + 1, FALSE, i)
    ELSE IF open # 0 /\ e[i] = "]" THEN ClassOpenedFrom(e, i + 1, FALSE, 0)
    ELSE ClassOpenedFrom(e, i + 1, FALSE, open)

ClassOpenedAt(e) == ClassOpenedFrom(e, 1, FALSE, 0)

\* The step reads an unescaped `^` in class mode.
ReadsClassCaret ==
    /\ ppc = "reading"
    /\ in_char_class
    /\ ~escaped
    /\ expr' = Append(expr, "^")

\* C21 (as claimed): in a class only the `^` read directly after the opening
\* `[` negates the class; an unescaped `^` at any later position, directly
\* after the leading `^` included, is added to the class as a literal.
C21_OnlyLeadingCaretNegates ==
    [][ReadsClassCaret =>
          IF ClassOpenedAt(expr) = Len(expr)
          THEN /\ char_class_buf'.negate
               /\ char_class_buf'.class = char_class_buf.class
               /\ char_range_buf' = char_range_buf
          ELSE AddedToClass("^")]_vars

\* C21: `[^^a]` has been read and the class shifted is the complement of
\* {a}: the second `^` is not a member of the class that was negated.
C21_Witness ==
    /\ expr = <<"[", "^", "^", "a", "]">>
    /\ ppc = "reading"
    /\ stack = <<<<Tok("Atom", Complement(CharClassNewSingle("a")))>>>>

----------------------------------------------------------------------------
(***************************************************************************)
(* The concatenation flag and the operators of a parse.                    *)
(***************************************************************************)
\* How many operators `op` a parse holds: those on the operator stack and
\* those already reduced into the fragments of the value stack.  A reduction
\* moves an operator from the first to the second; only a push adds one.
OnOpStack(ops, op) == Cardinality({i \in 1..Len(ops) : ops[i] = op})

InFragment(frag, kind) == Cardinality({i \in 1..Len(frag) : frag[i][1] = kind})

RECURSIVE InStack(_, _)
InStack(st, kind) ==
    IF st = <<>> THEN 0 ELSE InFragment(Head(st), kind) + InStack(Tail(st), kind)

OperatorTotal(st, ops, op) == InStack(st, op) + OnOpStack(ops, op)

\* The step reads c and `parse` goes on.
Processes(c) ==
    /\ ppc = "reading"
    /\ ppc' = "reading"
    /\ expr' = Append(expr, c)

PostfixChars == {"*", "+", "?"}

\* Unescaped, outside a class: the characters that have an arm of their own
\* and are not literals there.
MetaOutside == {"|", "(", ")", "[", "\\"} \cup PostfixChars

\* c is read as an atom outside a class: an escape, an unescaped literal or
\* `.`, or the `]` that closes a class.
ReadsAtom(c) ==
    \/ ~in_char_class /\ escaped
    \/ ~in_char_class /\ ~escaped /\ c \notin MetaOutside
    \/ in_char_class /\ ~escaped /\ c = "]"

ReadsOperator(c, cs) == ~in_char_class /\ ~escaped /\ c \in cs

ExprChars ==
    OperatorChars \cup ClassChars \cup ClassOperatorChars \cup EscapedChars

\* C22: after a character processed outside a class, insert_concat is false
\* if it was an unescaped `|` or `(`, true if it was an atom, an unescaped
\* `)` or a postfix operator; a Concatenation is pushed exactly when an atom
\* or `(` is read while the flag is true.
C22_InsertConcat ==
    [][\A c \in ExprChars :
          Processes(c) =>
             /\ ReadsOperator(c, {"|", "("}) => ~insert_concat'
             /\ ReadsAtom(c) \/ ReadsOperator(c, {")"} \cup PostfixChars)
                   => insert_concat'
             /\ (ReadsAtom(c) \/ ReadsOperator(c, MetaOutside)) =>
                   OperatorTotal(stack', op_stack', "Concatenation")
                      = OperatorTotal(stack, op_stack, "Concatenation")
                        + (IF insert_concat
                              /\ (ReadsAtom(c) \/ ReadsOperator(c, {"("}))
                           THEN 1 ELSE 0)]_vars

\* C22: `a(` has been read: the `(` read while the flag was true pushed a
\* Concatenation below the LeftParen and reset the flag.
C22_Witness ==
    /\ expr = <<"a", "(">>
    /\ op_stack = <<"Concatenation", "LeftParen">>
    /\ ~insert_concat

\* The step is the end of `parse`: no character is read.
ParseEnds ==
    /\ ppc = "reading"
    /\ ppc' # "reading"
    /\ expr' = expr

\* The step reads the `)` of a group `()`.  (No expression of the model has
\* an escaped parenthesis next to an unescaped one.)
ClosesEmptyGroup ==
    /\ ppc = "reading"
    /\ ~in_char_class
    /\ ~escaped
    /\ expr # <<>>
    /\ Last(expr) = "("
    /\ expr' = Append(expr, ")")

EpsilonFragment == <<Tok("Epsilon", {})>>

\* C23 (as claimed): for the empty expression `parse` reduces one
\* EmptyPlaceholder and returns Ok with the epsilon fragment as the only
\* fragment; no other step pushes an EmptyPlaceholder, except the one that
\* closes an empty group `()`.
\* (A placeholder is reduced in the step that pushes it: each one is an
\* Epsilon token more in the fragments.)
C23_EmptyPlaceholder ==
    [][/\ (ParseEnds /\ expr = <<>>) =>
             /\ ppc' = "ok"
             /\ presult' = <<"Some", EpsilonFragment>>
             /\ stack' = <<EpsilonFragment>>
             /\ op_stack' = <<>>
       /\ OnOpStack(op_stack', "EmptyPlaceholder") = 0
       /\ InStack(stack', "Epsilon") > InStack(stack, "Epsilon") =>
             /\ InStack(stack', "Epsilon") = InStack(stack, "Epsilon") + 1
             /\ (ParseEnds /\ expr = <<>>) \/ ClosesEmptyGroup]_vars

\* C23: `a((*))` has been read: the `)` of the outer group, which follows
\* the `)` of the inner one, has pushed and reduced an EmptyPlaceholder.
C23_Witness ==
    /\ expr = <<"a", "(", "(", "*", ")", ")">>
    /\ ppc = "reading"
    /\ stack = <<<<Tok("Atom", CharClassNewSingle("a")), Tok("KleeneStar", {})>>,
                 EpsilonFragment>>

\* The step reads c as the character of an escape outside a class, and
\* `parse` goes on.
EscapesOutside(c) == Processes(c) /\ ~in_char_class /\ escaped

Digits == Ord("0")..Ord("9")

Letters == (Ord("A")..Ord("Z")) \cup (Ord("a")..Ord("z"))

WordPoints == Digits \cup Letters \cup {Ord("_")}

SpacePoints == (Ord("\t")..13) \cup {Ord(" ")}

\* The code points an escape \c stands for.
EscapePoints(c) ==
    CASE c = "d" -> Digits
      [] c = "D" -> (0..MaxCodePoint) \ Digits
      [] c = "w" -> WordPoints
      [] c = "W" -> (0..MaxCodePoint) \ WordPoints
      [] c = "s" -> SpacePoints
      [] c = "S" -> (0..MaxCodePoint) \ SpacePoints
      [] c = "n" -> {Ord("\n")}
      [] OTHER -> {Ord(c)}

Operators ==
    {"Union", "Concatenation", "KleeneStar", "Plus", "Optional", "LeftParen",
     "EmptyPlaceholder"}

\* C24: outside a class, a backslash followed by d, D, w, W, s, S or n shifts
\* exactly one atom holding the predefined class, a backslash followed by any
\* other character shifts exactly one atom holding that character, and no
\* operator other than the Concatenation of adjacent atoms is pushed.
C24_Escapes ==
    [][\A c \in ExprChars :
          EscapesOutside(c) =>
             /\ ~escaped'
             /\ ~in_char_class'
             /\ stack' # <<>>
             /\ Len(Last(stack')) = 1
             /\ Last(stack')[1][1] = "Atom"
             /\ ClassPoints(Last(stack')[1][2]) = EscapePoints(c)
             /\ InStack(stack', "Atom") = InStack(stack, "Atom") + 1
             /\ paren_count_stack' = paren_count_stack
             /\ \A op \in Operators \ {"Concatenation"} :
                   OperatorTotal(stack', op_stack', op)
                      = OperatorTotal(stack, op_stack, op)]_vars

\* C24: `\w\*` has been read: the word class and the literal `*` are two
\* atoms, with the Concatenation between them as the only operator.
C24_Witness ==
    /\ expr = <<"\\", "w", "\\", "*">>
    /\ Len(stack) = 2
    /\ ClassPoints(stack[1][1][2]) = WordPoints
    /\ stack[2] = <<Tok("Atom", CharClassNewSingle("*"))>>
    /\ op_stack = <<"Concatenation">>

----------------------------------------------------------------------------
(***************************************************************************)
(* The combined NFA of the lexer, block by block.                          *)
(***************************************************************************)
\* The macro has expanded: the lexer is built and nothing was scanned yet.
LexerBuilt == lpc \in {"new", "rejected"}

RuleParsed(r) == Parse(r.regexp)[1] = "Some"

\* The rules that parse, in their order: the i-th has precedence i - 1.
Parsed == SelectSeq(rules, RuleParsed)

SubNFA(i) == ToNFA(Parse(Parsed[i].regexp)[2])

RECURSIVE BlockStart(_)
BlockStart(i) ==
    IF i = 1 THEN NFANew.total_states
    ELSE BlockStart(i - 1) + SubNFA(i - 1).total_states

Block(i) == BlockStart(i)..(BlockStart(i) + SubNFA(i).total_states - 1)

BlocksEnd ==
    IF Parsed = <<>> THEN NFANew.total_states
    ELSE BlockStart(Len(Parsed)) + SubNFA(Len(Parsed)).total_states

\* C25: in the combined NFA the i-th parsed rule occupies the block of
\* indices that starts where the block before it ends, the first after the
\* states of the fresh NFA; the initial state has an epsilon transition to
\* the rule's initial state in its block; the rule's final states are final
\* in its block and tagged with its precedence; the blocks are disjoint and
\* every tagged final state lies in the block of the one rule that tags it.
C25_RuleBlocks ==
    LexerBuilt =>
       /\ lexer.nfa.total_states = BlocksEnd
       /\ \A i \in 1..Len(Parsed) :
             /\ <<lexer.nfa.initial_state, SubNFA(i).initial_state + BlockStart(i)>>
                   \in lexer.nfa.eps
             /\ ShiftTrans(SubNFA(i), BlockStart(i)) \subseteq lexer.nfa.trans
             /\ ShiftEps(SubNFA(i), BlockStart(i)) \subseteq lexer.nfa.eps
             /\ \A f \in SubNFA(i).final_states :
                   /\ (f + BlockStart(i)) \in lexer.nfa.final_states
                   /\ (f + BlockStart(i)) \in DOMAIN lexer.action_mapping
                   /\ lexer.action_mapping[f + BlockStart(i)] =
                         [action |-> Parsed[i].action, precedence |-> i - 1]
             /\ \A j \in 1..Len(Parsed) : i # j => Block(i) \cap Block(j) = {}
       /\ DOMAIN lexer.action_mapping = lexer.nfa.final_states
       /\ \A q \in lexer.nfa.final_states :
             \E i \in 1..Len(Parsed) :
                /\ q \in Block(i)
                /\ (q - BlockStart(i)) \in SubNFA(i).final_states
                /\ lexer.action_mapping[q].precedence = i - 1

\* C25: the lexer of the rules digits, identifier, whitespace is built: three
\* blocks, the last ending at the last state of the combined NFA.
C25_Witness ==
    /\ LexerBuilt
    /\ rules = S3Rules
    /\ Len(Parsed) = 3
    /\ BlockStart(3) > BlockStart(2)
    /\ lexer.nfa.total_states = BlocksEnd

\* C26 (as claimed): when the regular expression of a rule does not parse,
\* the error is reported and no automaton is built from the rules that did
\* parse.
C26_NoPartialLexer ==
    (LexerBuilt /\ \E k \in DOMAIN rules : ~RuleParsed(rules[k])) =>
       /\ lexer.diagnostics # <<>>
       /\ lexer.nfa = NFANew
       /\ lexer.action_mapping = <<>>
       /\ DOMAIN lexer.dfa_actions = {}

\* C26: the first of two rules did not parse; the error was emitted and the
\* combined NFA holds the second rule alone, tagged with precedence 0.
C26_Witness ==
    /\ lpc = "rejected"
    /\ Len(rules) = 2
    /\ ~RuleParsed(rules[1])
    /\ lexer.diagnostics = <<<<INVALID_REGEXP_ERROR, "EmptyCharacterClass">>>>
    /\ DOMAIN lexer.dfa_actions # {}
    /\ \E q \in DOMAIN lexer.action_mapping :
          lexer.action_mapping[q] = [action |-> rules[2].action, precedence |-> 0]

\* The entries min_by_key can return, whatever the order in which the hash
\* map hands out its entries: those of least precedence number.
LeastCandidates(am, cands) ==
    {q \in cands : \A r \in cands : am[q].precedence <= am[r].precedence}

\* C27: the action of a DFA state does not depend on the iteration order of
\* action_mapping: entries of equal precedence carry the same action, so
\* every entry min_by_key can return gives the action of dfa_actions.
C27_ActionsIndependentOfOrder ==
    LexerBuilt =>
       /\ \A q, r \in DOMAIN lexer.action_mapping :
             lexer.action_mapping[q].precedence = lexer.action_mapping[r].precedence
                => lexer.action_mapping[q].action = lexer.action_mapping[r].action
       /\ \A d \in DOMAIN lexer.nfa_mapping :
             IF Candidates(lexer.action_mapping, lexer.nfa_mapping[d]) = {}
             THEN d \notin DOMAIN lexer.dfa_actions
             ELSE /\ d \in DOMAIN lexer.dfa_actions
                  /\ \A q \in LeastCandidates(lexer.action_mapping,
                                Candidates(lexer.action_mapping, lexer.nfa_mapping[d])) :
                        lexer.dfa_actions[d] = lexer.action_mapping[q].action

\* C27: a lexer is built in which a DFA state holds tagged final states of
\* two rules with different actions.
C27_Witness ==
    /\ lpc = "new"
    /\ \E d \in DOMAIN lexer.nfa_mapping :
          \E q, r \in Candidates(lexer.action_mapping, lexer.nfa_mapping[d]) :
             lexer.action_mapping[q].action # lexer.action_mapping[r].action

----------------------------------------------------------------------------
(***************************************************************************)
(* The cells of an LR(1) state under set_action.                           *)
(***************************************************************************)
\* The ACTION cells of a state that hold an action; <<>> is the endmarker.
CellsOf(st) ==
    {<<<<a>>, st.actions[a]>> : a \in DOMAIN st.actions}
       \cup (IF st.endmarker = <<>> THEN {} ELSE {<<<<>>, st.endmarker[1]>>})

CellOccupied(st, sy) == \E c \in CellsOf(st) : c[1] = sy

\* The step is a call of set_action from slr1_table: the symbol and the
\* action are those of the step at hand.
SlrSetActionRuns ==
    /\ lr_pc = "state"
    /\ lr_work # <<>>
    /\ Head(lr_work).op = "set_action"
    /\ lr_pc' \in {"state", "err", "panic"}

\* The step is a direct call of set_action.
DirectSetActionRuns ==
    /\ lr_pc \in {"new", "direct"}
    /\ lr_pc' \in {"direct", "direct_err", "panic"}

ReturnedOk == lr_pc' \in {"state", "direct"}

ReturnedErr == lr_pc' \in {"err", "direct_err"} /\ lr_result'.tag = "Err"

\* C28 (as claimed): a call of set_action on an empty cell stores the action
\* there, changes no other cell and returns Ok; a call on an occupied cell
\* returns Err and leaves actions, endmarker and goto as they were.
C28_SetActionWritesOnce ==
    [][(SlrSetActionRuns \/ DirectSetActionRuns) =>
          /\ ReturnedOk \/ ReturnedErr
          /\ lr1_state'.goto = lr1_state.goto
          /\ ReturnedOk =>
                /\ CellsOf(lr1_state) \subseteq CellsOf(lr1_state')
                /\ \E c \in CellsOf(lr1_state') :
                      /\ CellsOf(lr1_state') = CellsOf(lr1_state) \cup {c}
                      /\ ~CellOccupied(lr1_state, c[1])
          /\ ~ReturnedOk => lr1_state' = lr1_state
          /\ SlrSetActionRuns =>
                IF CellOccupied(lr1_state, Head(lr_work).sy)
                THEN ReturnedErr
                ELSE /\ ReturnedOk
                     /\ <<Head(lr_work).sy, Head(lr_work).action>>
                           \in CellsOf(lr1_state')]_vars

\* C28: a direct call of set_action on a state with an occupied cell has
\* panicked instead of returning.
C28_Witness ==
    /\ ~SlrCalled
    /\ lr_pc = "panic"
    /\ CellsOf(lr1_state) # {}

----------------------------------------------------------------------------
(***************************************************************************)
(* Termination of item_closure.                                            *)
(***************************************************************************)
\* C29 (as claimed): every call of item_closure returns, whatever the grammar
\* and the item set.
C29_ItemClosureTerminates == item_pc # "closure_overflow"

\* C29: item_closure recurses without end on {[P -> .A]} with the
\* productions A -> A a | A b: the items it is to add are the same at every
\* call.
C29_Witness ==
    /\ item_pc = "closure_overflow"
    /\ item_grammar = GrammarTwoLeftRecursions
    /\ item_set = {Item("P", <<"A">>, 0)}
    /\ Added(item_grammar, Added(item_grammar, item_set))
          = Added(item_grammar, item_set)

----------------------------------------------------------------------------
(***************************************************************************)
(* The frame of class mode.                                                *)
(***************************************************************************)
\* The step reads a character in class mode other than the unescaped `]`
\* that closes the class.
ReadsInsideClass ==
    /\ ppc = "reading"
    /\ in_char_class
    /\ Len(expr') = Len(expr) + 1
    /\ ~(~escaped /\ Last(expr') = "]")

\* C30 (as claimed): in class mode no character read before the closing `]`
\* changes the value stack, the operator stack or insert_concat.
C30_ClassModeFrame ==
    [][ReadsInsideClass =>
          /\ stack' = stack
          /\ op_stack' = op_stack
          /\ insert_concat' = insert_concat]_vars

\* C30: `a[\\` has been read: the escaped backslash, read in class mode, has
\* shifted a second fragment and pushed a Concatenation.
C30_Witness ==
    /\ expr = <<"a", "[", "\\", "\\">>
    /\ in_char_class
    /\ Len(stack) = 2
    /\ op_stack = <<"Concatenation">>

----------------------------------------------------------------------------
(***************************************************************************)
(* The reach of an escape.                                                 *)
(***************************************************************************)
\* C31 (as claimed): while the expression is read, `escaped` is set only
\* when the character read last is a backslash: after any other character
\* the flag is clear.
C31_EscapedOnlyAfterBackslash ==
    (ppc = "reading" /\ escaped) => (expr # <<>> /\ Last(expr) = "\\")

\* C31: `[\[` has been read: the `[` after the backslash was appended in
\* class mode and the flag is still set.
C31_Witness ==
    /\ expr = <<"[", "\\", "[">>
    /\ ppc = "reading"
    /\ in_char_class
    /\ escaped

----------------------------------------------------------------------------
----------------------------------------------------------------------------
(***************************************************************************)
(* The end of the input inside a character class.                          *)
(***************************************************************************)
\* C33 (as claimed): when the expression ends inside a character class that
\* no unescaped `]` has closed, parse does not return Ok(Some(fragment)).
C33_UnclosedClassRejected ==
    (ppc = "ok" /\ ClassOpenedAt(expr) # 0) => presult[1] # "Some"

\* C33: parse has returned for `a[d`: the result is Ok(Some(fragment)), the
\* fragment of `a` alone, and the class was still open.
C33_Witness ==
    /\ expr = <<"a", "[", "d">>
    /\ ppc = "ok"
    /\ in_char_class
    /\ presult[1] = "Some"
    /\ presult = Parse(<<"a">>)

----------------------------------------------------------------------------
(***************************************************************************)
(* lr1_goto.                                                               *)
(***************************************************************************)
\* The items [A -> alpha X . beta, a] for the items [A -> alpha . X beta, a]
\* of the set.
AdvancedOver(g, set, x) ==
    {j \in LR1ItemsOf(g) :
        \E i \in set : /\ i.pos < Len(i.rhs)
                       /\ i.rhs[i.pos + 1] = x
                       /\ j.lhs = i.lhs
                       /\ j.rhs = i.rhs
                       /\ j.pos = i.pos + 1
                       /\ j.lookahead = i.lookahead}

\* C34: lr1_goto(I, X) returns the LR(1) closure of the items of I that have
\* X after the dot, each advanced by one position with its lookahead kept;
\* the items of I without X after the dot contribute nothing, and the result
\* is empty when no item of I has X after the dot.
C34_LR1Goto ==
    item_pc = "lr1_goto" =>
       /\ item_result.set =
             LeastLR1Closed(item_grammar,
                            AdvancedOver(item_grammar, item_set, goto_x))
       /\ (\A i \in item_set : NextSymbol(i) # <<goto_x>>) =>
             item_result.set = {}

\* C34: lr1_goto has returned for a set of the grammar of the test that has
\* items with `*` after the dot and items with other symbols after it: the
\* result holds the advanced items [L -> * . R, a] and the items their
\* closure adds.
C34_Witness ==
    /\ item_pc = "lr1_goto"
    /\ item_grammar = GrammarLR
    /\ goto_x = "*"
    /\ \E i \in item_set : NextSymbol(i) = <<"*">>
    /\ \E i \in item_set : NextSymbol(i) \notin {<<"*">>, <<>>}
    /\ Cardinality(item_result.set) > 1

----------------------------------------------------------------------------
(***************************************************************************)
(* lr1_closure: termination, growth and idempotence.                       *)
(***************************************************************************)
\* lr1_closure has returned.
LR1ClosureReturned == item_pc = "lr1_closed"

\* C35: every call of lr1_closure returns; the returned set holds every item
\* of its input, every item it added has the dot at position 0, and
\* lr1_closure applied to the returned set returns that set unchanged.
C35_LR1ClosureTerminates ==
    /\ [](LR1ClosureReturned =>
            /\ item_set \subseteq item_result.set
            /\ \A it \in item_result.set \ item_set : it.pos = 0
            /\ LR1Closure(item_grammar, FirstSetsOf(item_grammar),
                          item_result.set) = item_result.set)
    /\ (item_pc = "lr1_while" ~> LR1ClosureReturned)

\* C35: lr1_closure has returned after adding items to a non-empty set of
\* the grammar with a nullable tail.
C35_Witness ==
    /\ LR1ClosureReturned
    /\ item_grammar = GrammarNullableTail
    /\ item_set # {}
    /\ item_result.set \ item_set # {}

----------------------------------------------------------------------------
(***************************************************************************)
(* The conflict reported for two actions.                                  *)
(***************************************************************************)
\* The action a cell holds.
ActionIn(st, sy) == (CHOOSE c \in CellsOf(st) : c[1] = sy)[2]

\* The conflict of the claim for the action in the cell and the new one.
ConflictOf(existing, new, sy) ==
    IF existing.kind = "Reduce" /\ new.kind = "Reduce"
    THEN [kind |-> "ReduceReduce",
          r1 |-> <<existing.lhs, existing.rhs>>,
          r2 |-> <<new.lhs, new.rhs>>]
    ELSE LET shift == IF existing.kind = "Shift" THEN existing ELSE new
             reduce == IF existing.kind = "Shift" THEN new ELSE existing
         IN [kind |-> "ShiftReduce",
             shift |-> <<sy, shift.dest>>,
             reduce |-> <<reduce.lhs, reduce.rhs>>]

\* The call of the step, on the cell of sy with the action `new`, met a Shift
\* and a Reduce in either order, or two Reduces, and returned the conflict
\* of the claim.
ConflictReported(sy, new) ==
    /\ CellOccupied(lr1_state, sy)
    /\ {ActionIn(lr1_state, sy).kind, new.kind} \in
          {{"Shift", "Reduce"}, {"Reduce"}}
    /\ lr_result'.conflict = ConflictOf(ActionIn(lr1_state, sy), new, sy)

\* C36: a call of set_action that returns Err reports, for a Shift and a
\* Reduce in either order, ShiftReduce with the symbol of the cell (None for
\* the endmarker), the destination of the shift and the (lhs, rhs) of the
\* reduce, and for two Reduces ReduceReduce with r1 the action in the cell
\* and r2 the new one.
C36_ConflictBothOrders ==
    [][/\ (SlrSetActionRuns /\ ReturnedErr) =>
             ConflictReported(Head(lr_work).sy, Head(lr_work).action)
       /\ (DirectSetActionRuns /\ ReturnedErr) =>
             \E sy \in DirectSymbols, new \in DirectActions :
                ConflictReported(sy, new)]_vars

\* C36: a direct call with Shift(2) on the endmarker cell, which held a
\* Reduce, has returned ShiftReduce with symbol None, destination 2 and the
\* reduce of the cell.
C36_Witness ==
    /\ ~SlrCalled
    /\ lr_pc = "direct_err"
    /\ lr1_state.endmarker = <<Reduce("S", <<"A">>)>>
    /\ lr_result.conflict = ShiftReduce(<<>>, 2, "S", <<"A">>)

----------------------------------------------------------------------------
(***************************************************************************)
(* Progress of the scanner.                                                *)
(***************************************************************************)
\* A call of advance has returned Ok(Some(token)).
ReturnedToken == lpc = "ret" /\ ret.result[1] = "Some"

\* C37 (as claimed): a call of advance that returns Ok(Some(token)) returns
\* a remaining input shorter than the input the caller gave it.
C37_TokenMakesProgress ==
    ReturnedToken => Len(ret.remaining) < Len(call_input)

\* C37: with the rule x* alone, the call on the input `4` has matched the
\* empty prefix and returned the token XS of empty text with `4` remaining.
C37_Witness ==
    /\ ReturnedToken
    /\ rules = <<RuleXs>>
    /\ call_input = <<"4">>
    /\ ret.result[2] = [name |-> "XS", text |-> <<>>]
    /\ ret.remaining = <<"4">>

----------------------------------------------------------------------------
(***************************************************************************)
(* Termination of advance.                                                 *)
(***************************************************************************)
\* A call of advance is running.
AdvanceRuns == lpc \in {"find", "action", "dispatch"}

\* The step is the call of advance by itself.
AdvanceRecurses == AdvanceRuns /\ depth' = depth + 1

\* The stages a call has before it: find, the action, the dispatch on its
\* result.
StagesLeft(pc) ==
    CASE pc = "find" -> 3
      [] pc = "action" -> 2
      [] pc = "dispatch" -> 1
      [] OTHER -> 0

\* The measure of a running call: the input of the innermost call, then the
\* stages it has left.
AdvanceMeasure(input, pc) == 4 * Len(input) + StagesLeft(pc)

\* C38: advance calls itself only when the action returned Ok(None), and
\* then on a non-empty input that is its own input without the first
\* character; the depth of the recursion and the length of the input of the
\* innermost call add up to the length of the input of the outermost call;
\* every step of a running call lowers a measure that is never negative, so
\* every call ends (by a return or the panic of the action dispatch) after
\* a number of steps bounded by the length of its input.
C38_AdvanceTerminates ==
    /\ [][/\ AdvanceRecurses =>
                /\ lpc = "dispatch"
                /\ token_res = <<"None">>
                /\ adv_input' # <<>>
                /\ adv_input' = Tail(adv_input)
          /\ AdvanceRuns =>
                AdvanceMeasure(adv_input', lpc') < AdvanceMeasure(adv_input, lpc)]_vars
    /\ [](AdvanceRuns =>
            /\ depth + Len(adv_input) = Len(call_input)
            /\ depth <= Len(call_input))

\* C38: on the input of three blanks the whitespace rule has skipped twice:
\* the third call of advance runs at depth 2 on the last blank.
C38_Witness ==
    /\ AdvanceRuns
    /\ call_input = <<" ", " ", " ">>
    /\ depth = 2
    /\ adv_input = <<" ">>

----------------------------------------------------------------------------
(***************************************************************************)
(* The catch-all arm of the action dispatch.                               *)
(***************************************************************************)
\* C39: every final state of the DFA of the lexer has an entry in
\* dfa_actions, the final state DFA::find has reported is one of them, and
\* no call of advance reaches the catch-all `panic!()` of the dispatch.
C39_NoDispatchPanic ==
    /\ lexer.dfa.final_states \subseteq DOMAIN lexer.dfa_actions
    /\ lpc = "action" => m[3] \in DOMAIN lexer.dfa_actions
    /\ lpc # "panic"

\* C39: with the rules blanks -> None and x* -> XS, find has reported the
\* initial DFA state, final through the second rule alone, for the input
\* `4`, and the action XS of that state has been run.
C39_Witness ==
    /\ lpc = "dispatch"
    /\ rules = <<RuleWs, RuleXs>>
    /\ adv_input = <<"4">>
    /\ m[3] = lexer.dfa.initial_state
    /\ m[3] \in lexer.dfa.final_states
    /\ run_action = <<RuleXs.action>>

=============================================================================
